---- MODULE Spec2Model ----
(***************************************************************************)
(* A model of the Redis-compatible server: the two-map storage with its    *)
(* reader-writer lock, the GET/SET handlers, the eviction loop, the word   *)
(* router of a request and the listener with its connection permits.       *)
(*                                                                         *)
(* Bytes are one-character strings, byte strings are sequences of them.    *)
(* Times are milliseconds since the epoch.                                 *)
(***************************************************************************)
EXTENDS Integers, Sequences, FiniteSets, TLC

(***************************************************************************)
(* Bounds of the model.                                                    *)
(***************************************************************************)
\* Number of connection tasks that use the storage concurrently.
NumConns == 2
\* The wall clock runs from 0 to MaxTime.
MaxTime == 2
\* Longest request, in words, of the router's general request family.
MaxWords == 3
\* Number of requests the router handles in one behaviour.
MaxRequests == 2
\* The configured maximum number of connections (Args::max_conn).
MaxConn == 2
\* Number of TCP clients that try to connect, beyond MaxConn.
ExtraClients == 1
\* Number of requests a connection answers before it only waits for its end.
MaxReplies == 1
\* Largest number of elements of the arrays that are encoded and decoded.
MaxElts == 2
\* The number of bits of the integers i64 and usize of the model.
IntBits == 8
\* Largest number of requests the peer of one connection sends.
MaxSends == 3
\* The number of pieces write_all hands a reply to the socket in.
ReplyChunks == 2

(***************************************************************************)
(* Program constants.                                                      *)
(***************************************************************************)
\* The factor of the EX unit in handle_set.
MS_PER_S == 1000

\* Option values: None, or Some(x).
None == <<>>
Some(x) == <<x>>

(***************************************************************************)
(* Bytes and words.                                                        *)
(***************************************************************************)
CR == "\r"
LF == "\n"
CRLF == <<CR, LF>>
\* A byte that is no valid UTF-8 (0xFF).
BadByte == "#FF"

Digits == <<"0", "1", "2", "3", "4", "5", "6", "7", "8", "9">>
LowerCase == <<"a", "b", "c", "d", "e", "f", "g", "h", "i", "j", "k", "l", "m",
               "n", "o", "p", "q", "r", "s", "t", "u", "v", "w", "x", "y", "z">>
UpperCase == <<"A", "B", "C", "D", "E", "F", "G", "H", "I", "J", "K", "L", "M",
               "N", "O", "P", "Q", "R", "S", "T", "U", "V", "W", "X", "Y", "Z">>

IsDigit(b) == \E d \in 1..10 : Digits[d] = b
DigitVal(b) == (CHOOSE d \in 1..10 : Digits[d] = b) - 1

\* A conversion that keeps the case of a byte.
byte_keep_case(b) == b

\* u8::to_ascii_uppercase: only a..z change.
byte_to_ascii_uppercase(b) ==
    IF \E n \in 1..26 : LowerCase[n] = b
    THEN UpperCase[CHOOSE n \in 1..26 : LowerCase[n] = b]
    ELSE b

to_ascii_uppercase(w) == [n \in 1..Len(w) |-> byte_to_ascii_uppercase(w[n])]

eq_ignore_ascii_case(a, b) == to_ascii_uppercase(a) = to_ascii_uppercase(b)

\* String::from_utf8 succeeds unless the bytes are no UTF-8.
from_utf8_ok(w) == \A n \in 1..Len(w) : w[n] # BadByte

RECURSIVE DigitsValue(_)
DigitsValue(ds) ==
    IF ds = <<>> THEN 0
    ELSE DigitsValue(SubSeq(ds, 1, Len(ds) - 1)) * 10 + DigitVal(ds[Len(ds)])

\* str::parse::<u128>: an optional '+', then one or more decimal digits.
\* The result is None on a parse error, else Some(value).
parse_u128(w) ==
    LET ds == IF Len(w) > 1 /\ w[1] = "+" THEN Tail(w) ELSE w
    IN  IF ds = <<>> \/ \E n \in 1..Len(ds) : ~IsDigit(ds[n])
        THEN None
        ELSE Some(DigitsValue(ds))

RECURSIVE ToDecimal(_)
\* The decimal digits of a natural number, as format!("{}") prints them.
ToDecimal(n) ==
    IF n < 10 THEN <<Digits[n + 1]>>
    ELSE ToDecimal(n \div 10) \o <<Digits[(n % 10) + 1]>>

\* The words the requests of the model are made of.
wPING == <<"P", "I", "N", "G">>
wECHO == <<"E", "C", "H", "O">>
wGET == <<"G", "E", "T">>
wSET == <<"S", "E", "T">>
wEX == <<"E", "X">>
wPX == <<"P", "X">>
wEcho == <<"E", "c", "h", "O">>
wpx == <<"p", "X">>
wPing == <<"p", "I", "n", "g">>
wGet == <<"g", "e", "T">>
wSet == <<"S", "e", "t">>
wEx == <<"e", "x">>
wK == <<"k">>
wJ == <<"j">>
wOne == <<"1">>
wHello == <<"H", "e", "l", "l", "o", ",", " ", "w", "o", "r", "l", "d", "!">>
wMinusOne == <<"-", "1">>

\* constants.rs: the supported commands.
COMMANDS == <<wECHO, wGET, wPING, wSET>>

(***************************************************************************)
(* Replies.                                                                *)
(***************************************************************************)
NullBulk == <<"$", "-", "1">> \o CRLF
Pong == <<"+", "P", "O", "N", "G">> \o CRLF
Ok == <<"+", "O", "K">> \o CRLF
\* format!("${}\r\n{s}\r\n", s.len())
Bulk(s) == <<"$">> \o ToDecimal(Len(s)) \o CRLF \o s \o CRLF

(***************************************************************************)
(* The storage: the pair (key-value map, key-expiry map).  A map is a      *)
(* function whose domain is the set of keys present.                       *)
(***************************************************************************)
EmptyMap == [k \in {} |-> None]

MapInsert(m, k, x) == [j \in DOMAIN m \cup {k} |-> IF j = k THEN x ELSE m[j]]

MapRemove(m, k) == [j \in DOMAIN m \ {k} |-> m[j]]

NewStorage == [kv |-> EmptyMap, ke |-> EmptyMap]

\* A create that keeps the value of a key that is present already.
create_if_absent(s, key, value, expiry) ==
    [kv |-> IF key \in DOMAIN s.kv THEN s.kv ELSE MapInsert(s.kv, key, value),
     ke |-> IF expiry # None THEN MapInsert(s.ke, key, expiry) ELSE s.ke]

\* A create that keeps the expiry a key has already.
create_keep_expiry(s, key, value, expiry) ==
    [kv |-> MapInsert(s.kv, key, value),
     ke |-> IF expiry # None /\ key \notin DOMAIN s.ke
            THEN MapInsert(s.ke, key, expiry) ELSE s.ke]

\* InMemoryStorage::create; expiry is None or Some(time).
create(s, key, value, expiry) ==
    [kv |-> MapInsert(s.kv, key, value),
     ke |-> IF expiry # None THEN MapInsert(s.ke, key, expiry) ELSE s.ke]

\* InMemoryStorage::read: None, or the pair (value, expiry or None).
read(s, key) ==
    IF key \notin DOMAIN s.kv THEN None
    ELSE <<s.kv[key], IF key \in DOMAIN s.ke THEN s.ke[key] ELSE None>>

\* A delete that forgets the expiry map.
delete_kv_only(s, key) == [kv |-> MapRemove(s.kv, key), ke |-> s.ke]

\* A delete that forgets the primary map.
delete_ke_only(s, key) == [kv |-> s.kv, ke |-> MapRemove(s.ke, key)]

\* InMemoryStorage::delete
delete(s, key) == [kv |-> MapRemove(s.kv, key), ke |-> MapRemove(s.ke, key)]

(***************************************************************************)
(* The handlers of GET and SET, cut at the points where they take the      *)
(* lock.  t is the value SystemTime::now() returns.                        *)
(***************************************************************************)
\* A handle_set up to the lock that takes every unit other than EX as PX.
set_expiry_any_unit(words, t) ==
    LET key == words[2]
        value == words[3]
        Fail(e) == [err |-> e, key |-> key, value |-> value, expiry |-> None]
    IN  IF ~from_utf8_ok(key) \/ ~from_utf8_ok(value) THEN Fail("FromUtf8Error")
        ELSE IF Len(words) = 5
        THEN LET time_cmd == words[4]
                 time_val == words[5]
                 ttl == parse_u128(time_val)
                 unit == to_ascii_uppercase(time_cmd)
             IN  IF ~from_utf8_ok(time_cmd) \/ ~from_utf8_ok(time_val)
                 THEN Fail("FromUtf8Error")
                 ELSE IF ttl = None THEN Fail("ParseIntError")
                 ELSE [err |-> "", key |-> key, value |-> value,
                       expiry |-> Some(t + ttl[1] * (IF unit = wEX THEN MS_PER_S ELSE 1))]
        ELSE [err |-> "", key |-> key, value |-> value, expiry |-> None]

\* handle_set up to the lock: the key, the value and the expiry, or an error.
set_expiry(words, t) ==
    LET key == words[2]
        value == words[3]
        Fail(e) == [err |-> e, key |-> key, value |-> value, expiry |-> None]
    IN  IF ~from_utf8_ok(key) \/ ~from_utf8_ok(value) THEN Fail("FromUtf8Error")
        ELSE IF Len(words) = 5
        THEN LET time_cmd == words[4]
                 time_val == words[5]
                 ttl == parse_u128(time_val)
                 unit == to_ascii_uppercase(time_cmd)
             IN  IF ~from_utf8_ok(time_cmd) \/ ~from_utf8_ok(time_val)
                 THEN Fail("FromUtf8Error")
                 ELSE IF ttl = None THEN Fail("ParseIntError")
                 ELSE IF unit = wEX
                 THEN [err |-> "", key |-> key, value |-> value,
                       expiry |-> Some(t + ttl[1] * MS_PER_S)]
                 ELSE IF unit = wPX
                 THEN [err |-> "", key |-> key, value |-> value,
                       expiry |-> Some(t + ttl[1])]
                 ELSE Fail("WrongArg")
        ELSE [err |-> "", key |-> key, value |-> value, expiry |-> None]

\* A get_response for which a key expires at its expiry, not after it.
get_response_ge(s, key, t) ==
    LET r == read(s, key)
    IN  IF r = None THEN [response |-> NullBulk, should_delete |-> FALSE]
        ELSE IF r[2] = None
        THEN [response |-> Bulk(r[1]), should_delete |-> FALSE]
        ELSE IF t >= r[2][1]
        THEN [response |-> NullBulk, should_delete |-> TRUE]
        ELSE [response |-> Bulk(r[1]), should_delete |-> FALSE]

\* A get_response that replies with the value of an expired key and
\* leaves the key to the sweep.
get_response_lazy(s, key, t) ==
    LET r == read(s, key)
    IN  IF r = None THEN [response |-> NullBulk, should_delete |-> FALSE]
        ELSE [response |-> Bulk(r[1]), should_delete |-> FALSE]

\* handle_get under the read lock: the response and whether the key is to be
\* deleted.
get_response(s, key, t) ==
    LET r == read(s, key)
    IN  IF r = None THEN [response |-> NullBulk, should_delete |-> FALSE]
        ELSE IF r[2] = None
        THEN [response |-> Bulk(r[1]), should_delete |-> FALSE]
        ELSE IF t > r[2][1]
        THEN [response |-> NullBulk, should_delete |-> TRUE]
        ELSE [response |-> Bulk(r[1]), should_delete |-> FALSE]

\* The keys the eviction loop deletes in one sweep that read the time t.
expired_keys(s, t) == {k \in DOMAIN s.ke : t > s.ke[k][1]}

\* A sweep that deletes the expired keys from the primary map alone.
sweep_primary_only(s, t) ==
    [kv |-> [k \in DOMAIN s.kv \ expired_keys(s, t) |-> s.kv[k]],
     ke |-> s.ke]

\* A sweep for which a key has expired once the time read has reached its
\* expiry.
sweep_ge(s, t) ==
    [kv |-> [k \in DOMAIN s.kv \ {e \in DOMAIN s.ke : t >= s.ke[e][1]} |-> s.kv[k]],
     ke |-> [k \in DOMAIN s.ke \ {e \in DOMAIN s.ke : t >= s.ke[e][1]} |-> s.ke[k]]]

\* The body of the for loop of eviction_loop: kv.delete and ke.delete of
\* every expired key of the snapshot of the expiry map.
sweep(s, t) ==
    [kv |-> [k \in DOMAIN s.kv \ expired_keys(s, t) |-> s.kv[k]],
     ke |-> [k \in DOMAIN s.ke \ expired_keys(s, t) |-> s.ke[k]]]

(***************************************************************************)
(* The handlers as handle_words calls them.  A handler that runs alone     *)
(* gets the lock at once, so it is one step: the result is the error (""   *)
(* when there is none), the reply bytes and the storage it leaves.         *)
(***************************************************************************)
\* An is_cmd that knows the command names in upper case alone.
is_cmd_exact(word) == \E n \in 1..Len(COMMANDS) : word = COMMANDS[n]

\* is_cmd: the word is a command name in any letter case.
is_cmd(word) == \E n \in 1..Len(COMMANDS) : eq_ignore_ascii_case(word, COMMANDS[n])

\* handle_ping
handle_ping(ws) ==
    IF Len(ws) = 1 THEN [err |-> "", reply |-> Pong]
    ELSE IF ~from_utf8_ok(ws[2]) THEN [err |-> "FromUtf8Error", reply |-> <<>>]
    ELSE [err |-> "", reply |-> Bulk(ws[2])]

\* handle_echo with the argument in upper case.
handle_echo_upper(ws) ==
    IF ~from_utf8_ok(ws[2]) THEN [err |-> "FromUtf8Error", reply |-> <<>>]
    ELSE [err |-> "", reply |-> Bulk(to_ascii_uppercase(ws[2]))]

\* handle_echo
handle_echo(ws) ==
    IF ~from_utf8_ok(ws[2]) THEN [err |-> "FromUtf8Error", reply |-> <<>>]
    ELSE [err |-> "", reply |-> Bulk(ws[2])]

\* handle_get
handle_get(ws, s, t) ==
    IF ~from_utf8_ok(ws[2])
    THEN [err |-> "FromUtf8Error", reply |-> <<>>, storage |-> s]
    ELSE LET r == get_response(s, ws[2], t)
         IN  [err |-> "", reply |-> r.response,
              storage |-> IF r.should_delete THEN delete(s, ws[2]) ELSE s]

\* handle_set
handle_set(ws, s, t) ==
    LET p == set_expiry(ws, t)
    IN  IF p.err # "" THEN [err |-> p.err, reply |-> <<>>, storage |-> s]
        ELSE [err |-> "", reply |-> Ok,
              storage |-> create(s, p.key, p.value, p.expiry)]

\* BytesMut::put
put(buf, bytes) == buf \o bytes

(***************************************************************************)
(* The RESP codec.  Positions are counted from 0 as in the code: At(b, k)  *)
(* is b[k].  A result is a record whose err is "" on success, the name of  *)
(* the error, "panic" when the code panics, or "OutOfBounds" when the      *)
(* unchecked pointer of parse_len reads past the end of its input.         *)
(***************************************************************************)
At(b, k) == b[k + 1]

\* b[from..]
SliceFrom(b, from) == SubSeq(b, from + 1, Len(b))

\* The values of a message.
SimpleString(x) == [t |-> "SimpleString", v |-> x]
ErrorValue(x) == [t |-> "Error", v |-> x]
Integer(n) == [t |-> "Integer", v |-> n]
BulkString(x) == [t |-> "BulkString", v |-> x]
NullBulkString == [t |-> "NullBulkString", v |-> <<>>]
Array(elts) == [t |-> "Array", v |-> elts]
NullArray == [t |-> "NullArray", v |-> <<>>]

\* TryFrom<u8> for RESPType
RESPType(byte) ==
    CASE byte = "+" -> "SimpleString"
      [] byte = "$" -> "BulkString"
      [] byte = ":" -> "Integer"
      [] byte = "*" -> "Array"
      [] byte = "-" -> "Error"
      [] OTHER -> "UnsupportedRESPType"

LenResult(e, l, n) == [err |-> e, len |-> l, bytes_read |-> n]

RECURSIVE scan_len(_, _, _, _)
\* parse_len: the loop over the digits up to the CR; ptr is at pos, which
\* is also the value of bytes_read.  len is a usize: when len * 10 + digit
\* does not fit, the build with overflow checks panics and the build
\* without them keeps the low bits.
scan_len(b, pos, len, overflow_checks) ==
    IF pos >= Len(b) THEN LenResult("OutOfBounds", None, 0)
    ELSE IF At(b, pos) = CR
    THEN IF pos + 1 >= Len(b) THEN LenResult("OutOfBounds", None, 0)
         ELSE IF At(b, pos + 1) # LF THEN LenResult("LFMissing", None, 0)
         ELSE LenResult("", Some(len), pos + 2)
    ELSE IF ~IsDigit(At(b, pos))
    THEN IF from_utf8_ok(SubSeq(b, 2, pos + 1))
         THEN LenResult("IntegerParseError", None, 0)
         ELSE LenResult("FromUtf8Error", None, 0)
    ELSE IF len * 10 + DigitVal(At(b, pos)) >= 2 ^ IntBits /\ overflow_checks
    THEN LenResult("panic", None, 0)
    ELSE scan_len(b, pos + 1, (len * 10 + DigitVal(At(b, pos))) % (2 ^ IntBits),
                  overflow_checks)

\* Message::parse_len
parse_len(b, overflow_checks) ==
    IF Len(b) < 2 THEN LenResult("OutOfBounds", None, 0)
    ELSE IF At(b, 1) = "-"
    THEN IF Len(b) < 3 THEN LenResult("OutOfBounds", None, 0)
         ELSE IF At(b, 2) # "1" THEN LenResult("NegativeLength", None, 0)
         ELSE IF Len(b) < 4 THEN LenResult("OutOfBounds", None, 0)
         ELSE IF At(b, 3) # CR THEN LenResult("NegativeLength", None, 0)
         ELSE IF Len(b) < 5 THEN LenResult("OutOfBounds", None, 0)
         ELSE IF At(b, 4) # LF THEN LenResult("LFMissing", None, 0)
         ELSE LenResult("", None, 5)
    ELSE scan_len(b, 1, 0, overflow_checks)

Decoded(value, length) == [err |-> "", value |-> value, length |-> length]
DecodeError(e) == [err |-> e, value |-> NullArray, length |-> 0]

\* The position of the first byte x of b, or Len(b) when there is none.
FindFirst(b, x) ==
    IF \E k \in 0..(Len(b) - 1) : At(b, k) = x
    THEN CHOOSE k \in 0..(Len(b) - 1) :
            At(b, k) = x /\ \A j \in 0..(k - 1) : At(b, j) # x
    ELSE Len(b)

\* Message::deserialize_simple_string
deserialize_simple_string(b) ==
    LET cr_pos == FindFirst(b, CR)
        lf_pos == FindFirst(b, LF)
    IN  IF cr_pos = Len(b) THEN DecodeError("CRMissing")
        ELSE IF lf_pos = Len(b) THEN DecodeError("LFMissing")
        ELSE IF lf_pos # cr_pos + 1 THEN DecodeError("CRLFNotAtEnd")
        ELSE Decoded(SimpleString(SubSeq(b, 2, cr_pos)), lf_pos + 1)

\* Message::deserialize_bulk_string; Bytes::slice panics when the range
\* ends past the input.
deserialize_bulk_string(b, overflow_checks) ==
    LET pl == parse_len(b, overflow_checks)
        start == pl.bytes_read
        end == start + pl.len[1]
    IN  IF pl.err # "" THEN DecodeError(pl.err)
        ELSE IF pl.len = None THEN Decoded(NullBulkString, 5)
        ELSE IF end > Len(b) THEN DecodeError("panic")
        ELSE Decoded(BulkString(SubSeq(b, start + 1, end)), end + 2)

\* The least value of i64.
I64_MIN == 0 - 2 ^ (IntBits - 1)

\* value as i64: the bits of a usize read as a signed integer.
as_i64(value) ==
    LET bits == value % (2 ^ IntBits)
    IN  IF bits >= 2 ^ (IntBits - 1) THEN bits - 2 ^ IntBits ELSE bits

\* Message::deserialize_integer; b[1] panics on an input of one byte, and
\* expect panics when parse_len returns None.  neg() of the least i64
\* overflows: it panics in a build with overflow checks and wraps to the
\* least i64 in a build without them.
deserialize_integer(b, overflow_checks) ==
    IF Len(b) < 2 THEN DecodeError("panic")
    ELSE IF At(b, 1) = "+"
    THEN LET pl == parse_len(SliceFrom(b, 1), overflow_checks)
         IN  IF pl.err # "" THEN DecodeError(pl.err)
             ELSE IF pl.len = None THEN DecodeError("panic")
             ELSE Decoded(Integer(as_i64(pl.len[1])), 1 + pl.bytes_read)
    ELSE IF At(b, 1) = "-"
    THEN LET pl == parse_len(SliceFrom(b, 1), overflow_checks)
         IN  IF pl.err # "" THEN DecodeError(pl.err)
             ELSE IF pl.len = None THEN DecodeError("panic")
             ELSE IF as_i64(pl.len[1]) = I64_MIN
             THEN IF overflow_checks THEN DecodeError("panic")
                  ELSE Decoded(Integer(I64_MIN), 1 + pl.bytes_read)
             ELSE Decoded(Integer(0 - as_i64(pl.len[1])), 1 + pl.bytes_read)
    ELSE LET pl == parse_len(b, overflow_checks)
         IN  IF pl.err # "" THEN DecodeError(pl.err)
             ELSE IF pl.len = None THEN DecodeError("panic")
             ELSE Decoded(Integer(as_i64(pl.len[1])), pl.bytes_read)

\* Message::deserialize_error
deserialize_error(b) ==
    LET d == deserialize_simple_string(b)
    IN  IF d.err # "" THEN d ELSE Decoded(ErrorValue(d.value.v), d.length)

RECURSIVE deserialize(_, _)
RECURSIVE deserialize_elements(_, _, _, _, _)
\* Message::deserialize_array: the loop over the num_elts elements; slice
\* panics when offset is past the input.
deserialize_elements(b, offset, num_elts, result, overflow_checks) ==
    IF num_elts = 0 THEN Decoded(Array(result), offset)
    ELSE IF offset > Len(b) THEN DecodeError("panic")
    ELSE LET d == deserialize(SliceFrom(b, offset), overflow_checks)
         IN  IF d.err # "" THEN d
             ELSE deserialize_elements(b, offset + d.length, num_elts - 1,
                                       Append(result, d.value),
                                       overflow_checks)

\* Message::deserialize_array
deserialize_array(b, overflow_checks) ==
    LET pl == parse_len(b, overflow_checks)
    IN  IF pl.err # "" THEN DecodeError(pl.err)
        ELSE IF pl.len = None THEN Decoded(NullArray, 5)
        ELSE deserialize_elements(b, pl.bytes_read, pl.len[1], <<>>,
                                  overflow_checks)

\* Message::deserialize; b[0] panics on an empty input.
deserialize(b, overflow_checks) ==
    IF b = <<>> THEN DecodeError("panic")
    ELSE CASE RESPType(b[1]) = "SimpleString" -> deserialize_simple_string(b)
           [] RESPType(b[1]) = "BulkString" ->
                deserialize_bulk_string(b, overflow_checks)
           [] RESPType(b[1]) = "Integer" ->
                deserialize_integer(b, overflow_checks)
           [] RESPType(b[1]) = "Array" -> deserialize_array(b, overflow_checks)
           [] RESPType(b[1]) = "Error" -> deserialize_error(b)
           [] OTHER -> DecodeError("UnsupportedRESPType")

RECURSIVE Encode(_)
RECURSIVE EncodeAll(_)
\* The encodings of the values of a sequence, one after the other.
EncodeAll(elts) ==
    IF elts = <<>> THEN <<>> ELSE Encode(elts[1]) \o EncodeAll(Tail(elts))

\* The encoding of a value, as the documentation of RESPType gives it.
Encode(value) ==
    CASE value.t = "SimpleString" -> <<"+">> \o value.v \o CRLF
      [] value.t = "Error" -> <<"-">> \o value.v \o CRLF
      [] value.t = "Integer" ->
            <<":">> \o (IF value.v < 0 THEN <<"-">> \o ToDecimal(0 - value.v)
                        ELSE ToDecimal(value.v)) \o CRLF
      [] value.t = "BulkString" ->
            <<"$">> \o ToDecimal(Len(value.v)) \o CRLF \o value.v \o CRLF
      [] value.t = "NullBulkString" -> <<"$", "-", "1">> \o CRLF
      [] value.t = "Array" ->
            <<"*">> \o ToDecimal(Len(value.v)) \o CRLF \o EncodeAll(value.v)
      [] value.t = "NullArray" -> <<"*", "-", "1">> \o CRLF

\* A handle_request that hands an empty array to handle_words.
request_words_empty(b, overflow_checks) ==
    LET len == Len(b)
        pl == parse_len(b, overflow_checks)
        d == deserialize(b, overflow_checks)
        Rejected(e) == [err |-> e, words |-> <<>>]
    IN  IF len < 2
        THEN Rejected(IF from_utf8_ok(b) THEN "InputTooShort"
                      ELSE "FromUtf8Error")
        ELSE IF At(b, len - 2) # CR \/ At(b, len - 1) # LF
        THEN Rejected("CRLFNotAtEnd")
        ELSE IF pl.err # "" THEN Rejected(pl.err)
        ELSE IF pl.len = None THEN Rejected("NullArray")
        ELSE IF d.err # "" THEN Rejected(d.err)
        ELSE IF d.value.t # "Array" THEN Rejected("CmdNotArray")
        ELSE IF \E k \in 1..Len(d.value.v) : d.value.v[k].t # "BulkString"
        THEN Rejected("NotAllBulk")
        ELSE [err |-> "", words |-> [k \in 1..Len(d.value.v) |-> d.value.v[k].v]]

\* handle_request up to the call of handle_words: the checks of the input
\* and the decoding.  words are the bulk strings handed to handle_words.
request_words(b, overflow_checks) ==
    LET len == Len(b)
        pl == parse_len(b, overflow_checks)
        d == deserialize(b, overflow_checks)
        Rejected(e) == [err |-> e, words |-> <<>>]
    IN  IF len < 2
        THEN Rejected(IF from_utf8_ok(b) THEN "InputTooShort"
                      ELSE "FromUtf8Error")
        ELSE IF At(b, len - 2) # CR \/ At(b, len - 1) # LF
        THEN Rejected("CRLFNotAtEnd")
        ELSE IF pl.err # "" THEN Rejected(pl.err)
        ELSE IF pl.len = None THEN Rejected("NullArray")
        ELSE IF d.err # "" THEN Rejected(d.err)
        ELSE IF d.value.t # "Array" THEN Rejected("CmdNotArray")
        ELSE IF d.value.v = <<>> THEN Rejected("EmptyArray")
        ELSE IF \E k \in 1..Len(d.value.v) : d.value.v[k].t # "BulkString"
        THEN Rejected("NotAllBulk")
        ELSE [err |-> "", words |-> [k \in 1..Len(d.value.v) |-> d.value.v[k].v]]

(***************************************************************************)
(* State.                                                                  *)
(***************************************************************************)
VARIABLES
    storage,    \* the shared pair of maps
    now,        \* the wall clock
    rwlock,     \* the RwLock around the storage: its writer and its readers
    conn,       \* per connection task: where it is in its handler
    evict,      \* the eviction thread: where it is in its loop
    last_set    \* history: per key, the latest SET that was stored: its value,
                \* whether it had a TTL clause, and whether any SET of the
                \* key had one

VARIABLES
    request_arr, \* handle_words: the words of the request
    i,           \* handle_words: the cursor, counted from 0
    result,      \* handle_words: the reply buffer
    status,      \* handle_words: "idle", "run", "ok", "panic" or the error
    served,      \* the number of requests received
    executed,    \* history: the handler calls of this request that returned
                 \* a reply, each with its cursor, its words and its reply
    stored,      \* history: per key, the value and the expiry of the latest
                 \* handle_set that succeeded
    at_start     \* history: the storage as it was when the request came in

VARIABLES
    permits,     \* the permits the semaphore max_conn has to give
    listener,    \* core_loop: where the listener is, and the permit it holds
    client,      \* per TCP client: where its connection attempt is
    task         \* per TCP client: the connection task spawned for it

VARIABLES
    sent,        \* the value whose encoding is decoded, or None
    input,       \* the bytes handed to handle_request or to deserialize
    decoded      \* what Message::deserialize returns for input, or None

VARIABLES
    peer,        \* the client of one connection: the requests it has sent,
                 \* and whether it has closed its end
    stream,      \* the TcpStream: the requests that wait to be read, and
                 \* the pieces of replies that were written, in order
    hconn        \* handle_connection: where it is in its loop, the requests
                 \* of the latest read, how much of the reply is written,
                 \* and the numbers of reads and of flushes done

store_vars == <<storage, now, rwlock, conn, evict, last_set>>

stream_vars == <<peer, stream, hconn>>

resp_vars == <<sent, input, decoded>>

server_vars == <<permits, listener, client, task>>

words_vars == <<request_arr, i, result, status, served, executed, stored,
               at_start>>

vars == <<store_vars, words_vars, server_vars, resp_vars, stream_vars>>

\* What the steps of the storage model, of the router and of the listener
\* leave alone.
StoreFrame == UNCHANGED <<words_vars, server_vars, resp_vars, stream_vars>>
WordsFrame ==
    UNCHANGED <<rwlock, conn, evict, last_set, server_vars, resp_vars, stream_vars>>
ServerFrame == UNCHANGED <<store_vars, words_vars, resp_vars, stream_vars>>
RespFrame == UNCHANGED <<store_vars, words_vars, server_vars, stream_vars>>
RequestFrame ==
    UNCHANGED <<rwlock, conn, evict, last_set, server_vars, sent, stream_vars>>
StreamFrame == UNCHANGED <<store_vars, words_vars, server_vars, resp_vars>>

\* The tasks that use the lock: the connections and the eviction thread.
Conns == 1..NumConns
EVICT == 0

StoreKeys == {wK, wJ}
\* Connection c stores a value of its own: c bytes 'v'.
ValOf(c) == [n \in 1..c |-> "v"]
TtlUnits == {wPX}
TtlVals == {wOne}

\* The one-command requests the connections of the storage model send.
GetRequests == {<<wGET, k>> : k \in StoreKeys}
SetRequests(c) ==
    {<<wSET, k, ValOf(c)>> : k \in StoreKeys}
    \cup {<<wSET, k, ValOf(c), u, n>> :
            k \in StoreKeys, u \in TtlUnits, n \in TtlVals}

IdleConn == [pc |-> "idle", words |-> <<>>, expiry |-> None, response |-> <<>>]

StoreInit ==
    /\ storage = NewStorage
    /\ now = 0
    /\ rwlock = [writer |-> None, readers |-> {}]
    /\ conn = [c \in Conns |-> IdleConn]
    /\ evict = [pc |-> "time", time_now_ms |-> 0]
    /\ last_set = EmptyMap

\* A read lock that is granted while a writer holds the lock.
CanReadBesideWriter == TRUE

\* RwLock::read and RwLock::write return when the lock is free for them.
CanRead == rwlock.writer = None
CanWrite == rwlock.writer = None /\ rwlock.readers = {}

\* The clock advances.
Tick ==
    /\ now < MaxTime
    /\ now' = now + 1
    /\ UNCHANGED <<storage, rwlock, conn, evict, last_set>>
    /\ StoreFrame

\* handle_set, lines 344-386: the arguments and the expiry from the clock.
handle_set_begin(c) ==
    /\ conn[c].pc = "idle"
    /\ \E words \in SetRequests(c) :
         LET p == set_expiry(words, now)
         IN  conn' = [conn EXCEPT ![c] =
                 IF p.err # ""
                 THEN [pc |-> "failed", words |-> words, expiry |-> None,
                       response |-> <<>>]
                 ELSE [pc |-> "set_wait_write", words |-> words,
                       expiry |-> p.expiry, response |-> <<>>]]
    /\ UNCHANGED <<storage, now, rwlock, evict, last_set>>
    /\ StoreFrame

\* handle_set, line 388: storage.write()
handle_set_lock(c) ==
    /\ conn[c].pc = "set_wait_write"
    /\ CanWrite
    /\ rwlock' = [rwlock EXCEPT !.writer = Some(c)]
    /\ conn' = [conn EXCEPT ![c].pc = "set_write"]
    /\ UNCHANGED <<storage, now, evict, last_set>>
    /\ StoreFrame

\* handle_set, lines 389-390: create, the guard is dropped, +OK.
handle_set_create(c) ==
    /\ conn[c].pc = "set_write"
    /\ LET key == conn[c].words[2]
           value == conn[c].words[3]
           expiry == conn[c].expiry
       IN  /\ storage' = create(storage, key, value, expiry)
           /\ last_set' = MapInsert(last_set, key,
                  [value |-> value, ttl |-> expiry # None,
                   ever_ttl |-> \/ expiry # None
                                \/ key \in DOMAIN last_set /\ last_set[key].ever_ttl])
    /\ rwlock' = [rwlock EXCEPT !.writer = None]
    /\ conn' = [conn EXCEPT ![c] = IdleConn]
    /\ UNCHANGED <<now, evict>>
    /\ StoreFrame

\* handle_get, lines 247-254: the key; the task then asks for the read lock.
handle_get_begin(c) ==
    /\ conn[c].pc = "idle"
    /\ \E words \in GetRequests :
         conn' = [conn EXCEPT ![c] =
             IF ~from_utf8_ok(words[2])
             THEN [pc |-> "failed", words |-> words, expiry |-> None,
                   response |-> <<>>]
             ELSE [pc |-> "get_wait_read", words |-> words, expiry |-> None,
                   response |-> <<>>]]
    /\ UNCHANGED <<storage, now, rwlock, evict, last_set>>
    /\ StoreFrame

\* handle_get, line 256: storage.read()
handle_get_lock_read(c) ==
    /\ conn[c].pc = "get_wait_read"
    /\ CanRead
    /\ rwlock' = [rwlock EXCEPT !.readers = @ \cup {c}]
    /\ conn' = [conn EXCEPT ![c].pc = "get_read"]
    /\ UNCHANGED <<storage, now, evict, last_set>>
    /\ StoreFrame

\* A handle_get that keeps its read guard while it asks for the write
\* lock.
handle_get_read_keeps_guard(c) ==
    /\ conn[c].pc = "get_read"
    /\ LET r == get_response(storage, conn[c].words[2], now)
       IN  /\ conn' = [conn EXCEPT
                  ![c].pc = IF r.should_delete THEN "get_wait_write"
                            ELSE "get_return",
                  ![c].response = r.response]
           /\ rwlock' = IF r.should_delete THEN rwlock
                        ELSE [rwlock EXCEPT !.readers = @ \ {c}]
    /\ UNCHANGED <<storage, now, evict, last_set>>
    /\ StoreFrame

\* handle_get, lines 257-276: the response; the read guard is dropped.
handle_get_read(c) ==
    /\ conn[c].pc = "get_read"
    /\ LET r == get_response(storage, conn[c].words[2], now)
       IN  conn' = [conn EXCEPT
               ![c].pc = IF r.should_delete THEN "get_wait_write"
                         ELSE "get_return",
               ![c].response = r.response]
    /\ rwlock' = [rwlock EXCEPT !.readers = @ \ {c}]
    /\ UNCHANGED <<storage, now, evict, last_set>>
    /\ StoreFrame

\* handle_get, line 278: storage.write()
handle_get_lock_write(c) ==
    /\ conn[c].pc = "get_wait_write"
    /\ CanWrite
    /\ rwlock' = [rwlock EXCEPT !.writer = Some(c)]
    /\ conn' = [conn EXCEPT ![c].pc = "get_write"]
    /\ UNCHANGED <<storage, now, evict, last_set>>
    /\ StoreFrame

\* handle_get, lines 279-281: delete, the guard is dropped, the response.
handle_get_delete(c) ==
    /\ conn[c].pc = "get_write"
    /\ storage' = delete(storage, conn[c].words[2])
    /\ rwlock' = [rwlock EXCEPT !.writer = None]
    /\ conn' = [conn EXCEPT ![c].pc = "get_return"]
    /\ UNCHANGED <<now, evict, last_set>>
    /\ StoreFrame

\* handle_get, line 281: Ok(response) goes to the caller.
handle_get_return(c) ==
    /\ conn[c].pc = "get_return"
    /\ conn' = [conn EXCEPT ![c] = IdleConn]
    /\ UNCHANGED <<storage, now, rwlock, evict, last_set>>
    /\ StoreFrame

\* eviction_loop, lines 28-32: the time of this sweep.
evict_time ==
    /\ evict.pc = "time"
    /\ evict' = [pc |-> "wait_write", time_now_ms |-> now]
    /\ UNCHANGED <<storage, now, rwlock, conn, last_set>>
    /\ StoreFrame

\* eviction_loop, line 36: storage.write()
evict_lock ==
    /\ evict.pc = "wait_write"
    /\ CanWrite
    /\ rwlock' = [rwlock EXCEPT !.writer = Some(EVICT)]
    /\ evict' = [evict EXCEPT !.pc = "sweep"]
    /\ UNCHANGED <<storage, now, conn, last_set>>
    /\ StoreFrame

\* eviction_loop, lines 38-46: the expired keys leave both maps.
evict_sweep ==
    /\ evict.pc = "sweep"
    /\ storage' = sweep(storage, evict.time_now_ms)
    /\ evict' = [evict EXCEPT !.pc = "sleep"]
    /\ UNCHANGED <<now, rwlock, conn, last_set>>
    /\ StoreFrame

\* eviction_loop, lines 47-50: the sleep ends; the write guard, still alive
\* during the sleep, is dropped at the end of the loop body.
evict_wake ==
    /\ evict.pc = "sleep"
    /\ rwlock' = [rwlock EXCEPT !.writer = None]
    /\ evict' = [pc |-> "time", time_now_ms |-> 0]
    /\ UNCHANGED <<storage, now, conn, last_set>>
    /\ StoreFrame

StoreNext ==
    \/ Tick
    \/ \E c \in Conns : handle_set_begin(c)
    \/ \E c \in Conns : handle_set_lock(c)
    \/ \E c \in Conns : handle_set_create(c)
    \/ \E c \in Conns : handle_get_begin(c)
    \/ \E c \in Conns : handle_get_lock_read(c)
    \/ \E c \in Conns : handle_get_read(c)
    \/ \E c \in Conns : handle_get_lock_write(c)
    \/ \E c \in Conns : handle_get_delete(c)
    \/ \E c \in Conns : handle_get_return(c)
    \/ evict_time
    \/ evict_lock
    \/ evict_sweep
    \/ evict_wake

(***************************************************************************)
(* The router: handle_words on the words of one request after the other.   *)
(***************************************************************************)
WordsIdle ==
    /\ request_arr = <<>>
    /\ i = 0
    /\ result = <<>>
    /\ status = "idle"
    /\ served = 0
    /\ executed = <<>>
    /\ stored = EmptyMap
    /\ at_start = NewStorage

\* The words requests are made of.
Vocabulary == {wPING, wEcho, wGET, wSET, wpx, wK, wOne}

RECURSIVE SeqsOfLen(_, _)
SeqsOfLen(S, n) ==
    IF n = 0 THEN {<<>>}
    ELSE {Append(q, x) : q \in SeqsOfLen(S, n - 1), x \in S}

\* Every request of at most MaxWords words, the five-word requests that
\* start with SET k 1, PING and ECHO with an argument of 13 bytes, and
\* requests that spell PING, GET, SET and EX in mixed case, and a SET whose
\* TTL value is negative, and a SET followed by a GET without its key.
Requests ==
    UNION {SeqsOfLen(Vocabulary, n) : n \in 1..MaxWords}
    \cup {<<wSET, wK, wOne, a, b>> : a \in Vocabulary \cup {wEX}, b \in Vocabulary}
    \cup {<<wPING, wHello>>, <<wEcho, wHello>>}
    \cup {<<wPing>>, <<wPing, wK>>, <<wPING, wGet>>, <<wGet, wK>>,
          <<wSet, wK, wOne>>, <<wSet, wK, wOne, wEx, wOne>>,
          <<wSET, wK, wK, wPX, wMinusOne>>, <<wPing, wGet, wK>>,
          <<wSET, wK, wOne, wGET>>}

num_flattened == Len(request_arr)

\* request_arr[i..i + n]
Slice(n) == SubSeq(request_arr, i + 1, i + n)

first == to_ascii_uppercase(request_arr[i + 1])

Running == status = "run" /\ i < num_flattened

\* handle_request hands the words of a request to handle_words.
NewRequest ==
    /\ WordsFrame
    /\ status # "run"
    /\ served < MaxRequests
    /\ \E r \in Requests : request_arr' = r
    /\ i' = 0
    /\ result' = <<>>
    /\ status' = "run"
    /\ served' = served + 1
    /\ executed' = <<>>
    /\ at_start' = storage
    /\ UNCHANGED <<storage, now, stored>>

\* The clock advances by a millisecond or by a second; it shows at most
\* one second and MaxTime milliseconds.
Elapse ==
    /\ WordsFrame
    /\ \/ now % MS_PER_S < MaxTime /\ now' = now + 1
       \/ now < MS_PER_S /\ now' = now + MS_PER_S
    /\ UNCHANGED <<storage, words_vars>>

\* A handler returned Ok(reply): the reply is put and the cursor moves on.
Replied(ws, reply) ==
    /\ result' = put(result, reply)
    /\ executed' = Append(executed, [at |-> i, words |-> ws, reply |-> reply])
    /\ i' = i + 1
    /\ UNCHANGED <<request_arr, status, served, at_start>>

\* handle_words returns Err(e): the reply buffer is dropped.
Failed(e) ==
    /\ status' = e
    /\ result' = <<>>
    /\ UNCHANGED <<request_arr, i, served, executed, at_start>>

\* The arm b"ECHO" of the match.
WordEcho ==
    /\ WordsFrame
    /\ Running
    /\ first = wECHO
    /\ IF i < num_flattened - 1
       THEN LET r == handle_echo(Slice(2))
            IN  IF r.err = "" THEN Replied(Slice(2), r.reply) ELSE Failed(r.err)
       ELSE Failed("MissingArg")
    /\ UNCHANGED <<storage, now, stored>>

\* The arm b"GET" of the match.
WordGet ==
    /\ WordsFrame
    /\ Running
    /\ first = wGET
    /\ IF i < num_flattened - 1
       THEN LET r == handle_get(Slice(2), storage, now)
            IN  /\ IF r.err = "" THEN Replied(Slice(2), r.reply) ELSE Failed(r.err)
                /\ storage' = r.storage
       ELSE Failed("MissingArg") /\ UNCHANGED storage
    /\ UNCHANGED <<now, stored>>

\* The arm b"PING" of the match.
WordPing ==
    /\ WordsFrame
    /\ Running
    /\ first = wPING
    /\ LET n == IF i < num_flattened - 1 /\ ~is_cmd(request_arr[i + 2])
                THEN 2 ELSE 1
           r == handle_ping(Slice(n))
       IN  IF r.err = "" THEN Replied(Slice(n), r.reply) ELSE Failed(r.err)
    /\ UNCHANGED <<storage, now, stored>>

\* The arm b"SET" of the match.  num_flattened - 2 is a subtraction of
\* unsigned integers: for a request of one word it overflows, which panics,
\* or wraps and lets the slice go out of range, which panics too.
WordSet ==
    /\ WordsFrame
    /\ Running
    /\ first = wSET
    /\ IF num_flattened >= 4 /\ i < num_flattened - 4
       THEN LET r == handle_set(Slice(5), storage, now)
                p == set_expiry(Slice(5), now)
            IN  /\ IF r.err = "" THEN Replied(Slice(5), r.reply) ELSE Failed(r.err)
                /\ storage' = r.storage
                /\ stored' = IF r.err = ""
                             THEN MapInsert(stored, p.key,
                                    [value |-> p.value, expiry |-> p.expiry])
                             ELSE stored
       ELSE IF num_flattened < 2
       THEN /\ status' = "panic"
            /\ result' = <<>>
            /\ UNCHANGED <<request_arr, i, served, executed, storage, stored,
                           at_start>>
       ELSE IF i < num_flattened - 2
       THEN LET r == handle_set(Slice(3), storage, now)
                p == set_expiry(Slice(3), now)
            IN  /\ IF r.err = "" THEN Replied(Slice(3), r.reply) ELSE Failed(r.err)
                /\ storage' = r.storage
                /\ stored' = IF r.err = ""
                             THEN MapInsert(stored, p.key,
                                    [value |-> p.value, expiry |-> p.expiry])
                             ELSE stored
       ELSE Failed("MissingArg") /\ UNCHANGED <<storage, stored>>
    /\ UNCHANGED now

\* An arm _ that rejects the word as an unknown command.
WordOtherFails ==
    /\ WordsFrame
    /\ Running
    /\ first \notin {wECHO, wGET, wPING, wSET}
    /\ Failed("WrongArg")
    /\ UNCHANGED <<storage, now, stored>>

\* The arm _ of the match: the word is skipped.
WordOther ==
    /\ WordsFrame
    /\ Running
    /\ first \notin {wECHO, wGET, wPING, wSET}
    /\ i' = i + 1
    /\ UNCHANGED <<request_arr, result, status, served, executed, storage, now,
                   stored, at_start>>

\* The loop ends: Ok(result).
WordsDone ==
    /\ WordsFrame
    /\ status = "run"
    /\ i >= num_flattened
    /\ status' = "ok"
    /\ UNCHANGED <<request_arr, i, result, served, executed, storage, now, stored,
                   at_start>>

WordsNext ==
    \/ NewRequest
    \/ Elapse
    \/ WordEcho
    \/ WordGet
    \/ WordPing
    \/ WordSet
    \/ WordOther
    \/ WordsDone

(***************************************************************************)
(* The listener: core_loop and acquire_socket_permit, the connection       *)
(* tasks it spawns around handle_connection, and the TCP clients.          *)
(***************************************************************************)
Clients == 1..(MaxConn + ExtraClients)

NoTask == [pc |-> "none", permit |-> FALSE, replies |-> 0, end |-> ""]

ServerInit ==
    /\ permits = MaxConn
    /\ listener = [pc |-> "acquire", permit |-> FALSE, last |-> ""]
    /\ client = [cl \in Clients |->
                   [state |-> "idle", closed |-> FALSE, waited |-> FALSE]]
    /\ task = [cl \in Clients |-> NoTask]

\* A client connects: the kernel completes the handshake and queues the
\* connection for accept.
client_connect(cl) ==
    /\ ServerFrame
    /\ client[cl].state = "idle"
    /\ client' = [client EXCEPT ![cl].state = "pending"]
    /\ UNCHANGED <<permits, listener, task>>

\* A client closes its end of the connection.
client_close(cl) ==
    /\ ServerFrame
    /\ client[cl].state \in {"pending", "accepted"}
    /\ ~client[cl].closed
    /\ client' = [client EXCEPT ![cl].closed = TRUE]
    /\ UNCHANGED <<permits, listener, task>>

\* An acquire that goes on to accept without a permit of the semaphore.
acquire_permit_unchecked ==
    /\ ServerFrame
    /\ listener.pc = "acquire"
    /\ listener' = [listener EXCEPT !.pc = "accept", !.permit = TRUE]
    /\ UNCHANGED <<permits, client, task>>

\* acquire_socket_permit, lines 150-159: acquire_owned returns a permit.
acquire_permit ==
    /\ ServerFrame
    /\ listener.pc = "acquire"
    /\ permits > 0
    /\ permits' = permits - 1
    /\ listener' = [listener EXCEPT !.pc = "accept", !.permit = TRUE]
    /\ UNCHANGED <<client, task>>

\* A timeout that discards the connection attempts that wait for accept.
permit_timeout_drops ==
    /\ ServerFrame
    /\ listener.pc = "acquire"
    /\ permits = 0
    /\ listener' = [listener EXCEPT !.last = "ElapsedError"]
    /\ client' = [cl \in Clients |->
                    IF client[cl].state = "pending"
                    THEN [state |-> "idle", closed |-> TRUE, waited |-> TRUE]
                    ELSE client[cl]]
    /\ UNCHANGED <<permits, task>>

\* acquire_socket_permit, lines 150-159, and core_loop, lines 99-101: no
\* permit came within CONNECTION_PERMIT_TIMEOUT_MS; the error is logged and
\* the loop goes on.  The attempts that wait for accept are marked.
permit_timeout ==
    /\ ServerFrame
    /\ listener.pc = "acquire"
    /\ permits = 0
    /\ listener' = [listener EXCEPT !.last = "ElapsedError"]
    /\ client' = [cl \in Clients |->
                    IF client[cl].state = "pending"
                    THEN [client[cl] EXCEPT !.waited = TRUE]
                    ELSE client[cl]]
    /\ UNCHANGED <<permits, task>>

\* acquire_socket_permit, lines 160-161, and core_loop, lines 78-98: accept
\* returns the socket of a client and the task for it is spawned with the
\* permit.
accept_and_spawn(cl) ==
    /\ ServerFrame
    /\ listener.pc = "accept"
    /\ client[cl].state = "pending"
    /\ client' = [client EXCEPT ![cl].state = "accepted"]
    /\ task' = [task EXCEPT ![cl] =
                   [pc |-> "running", permit |-> listener.permit, replies |-> 0,
                    end |-> ""]]
    /\ listener' = [pc |-> "acquire", permit |-> FALSE, last |-> "spawned"]
    /\ UNCHANGED permits

\* An accept failure after which the permit of the attempt is not given
\* back.
accept_fails_leak ==
    /\ ServerFrame
    /\ listener.pc = "accept"
    /\ listener' = [pc |-> "acquire", permit |-> FALSE, last |-> "IoError"]
    /\ UNCHANGED <<permits, client, task>>

\* acquire_socket_permit, line 160, and core_loop, lines 99-101: accept
\* fails; the permit is dropped with the error, which is logged.
accept_fails ==
    /\ ServerFrame
    /\ listener.pc = "accept"
    /\ permits' = IF listener.permit THEN permits + 1 ELSE permits
    /\ listener' = [pc |-> "acquire", permit |-> FALSE, last |-> "IoError"]
    /\ UNCHANGED <<client, task>>

\* handle_connection, lines 35-51: a request is read and handled, and its
\* reply is written and flushed.
connection_replies(cl) ==
    /\ ServerFrame
    /\ task[cl].pc = "running"
    /\ ~client[cl].closed
    /\ task[cl].replies < MaxReplies
    /\ task' = [task EXCEPT ![cl].replies = @ + 1]
    /\ UNCHANGED <<permits, listener, client>>

\* handle_connection, lines 36 and 54-56: the read returns 0 bytes, the
\* peer has closed; Ok(()) goes to the task.
connection_ends(cl) ==
    /\ ServerFrame
    /\ task[cl].pc = "running"
    /\ client[cl].closed
    /\ task' = [task EXCEPT ![cl].pc = "returned", ![cl].end = "closed"]
    /\ UNCHANGED <<permits, listener, client>>

\* A task that writes a reply for the request that failed.
connection_fails_replies(cl) ==
    /\ ServerFrame
    /\ task[cl].pc = "running"
    /\ \E e \in {"IoError", "CmdError"} :
         /\ e = "CmdError" => ~client[cl].closed
         /\ task' = [task EXCEPT ![cl].pc = "ended", ![cl].end = e,
                                 ![cl].permit = FALSE,
                                 ![cl].replies = @ + 1]
    /\ permits' = IF task[cl].permit THEN permits + 1 ELSE permits
    /\ client' = [client EXCEPT ![cl].closed = TRUE]
    /\ UNCHANGED listener

\* A task that ends on an error and keeps its permit.
connection_fails_leak(cl) ==
    /\ ServerFrame
    /\ task[cl].pc = "running"
    /\ \E e \in {"IoError", "CmdError"} :
         /\ e = "CmdError" => ~client[cl].closed
         /\ task' = [task EXCEPT ![cl].pc = "ended", ![cl].end = e]
    /\ client' = [client EXCEPT ![cl].closed = TRUE]
    /\ UNCHANGED <<permits, listener>>

\* handle_connection, lines 41-44 and 49-51, and core_loop, lines 85-90:
\* the read or the write fails, or handle_request returns an error; expect
\* panics, and the unwinding drops the socket and the permit of the task.
connection_fails(cl) ==
    /\ ServerFrame
    /\ task[cl].pc = "running"
    /\ \E e \in {"IoError", "CmdError"} :
         /\ e = "CmdError" => ~client[cl].closed
         /\ task' = [task EXCEPT ![cl].pc = "ended", ![cl].end = e,
                                 ![cl].permit = FALSE]
    /\ permits' = IF task[cl].permit THEN permits + 1 ELSE permits
    /\ client' = [client EXCEPT ![cl].closed = TRUE]
    /\ UNCHANGED listener

\* core_loop, lines 91-96: the socket and the permit are dropped.
task_drops(cl) ==
    /\ ServerFrame
    /\ task[cl].pc = "returned"
    /\ task' = [task EXCEPT ![cl].pc = "ended", ![cl].permit = FALSE]
    /\ permits' = IF task[cl].permit THEN permits + 1 ELSE permits
    /\ UNCHANGED <<listener, client>>

ServerNext ==
    \/ \E cl \in Clients : client_connect(cl)
    \/ \E cl \in Clients : client_close(cl)
    \/ acquire_permit
    \/ permit_timeout
    \/ \E cl \in Clients : accept_and_spawn(cl)
    \/ accept_fails
    \/ \E cl \in Clients : connection_replies(cl)
    \/ \E cl \in Clients : connection_ends(cl)
    \/ \E cl \in Clients : connection_fails(cl)
    \/ \E cl \in Clients : task_drops(cl)

(***************************************************************************)
(* The codec on the encodings of values, and handle_request on the bytes   *)
(* of requests.                                                            *)
(***************************************************************************)
RespInit ==
    /\ sent = None
    /\ input = <<>>
    /\ decoded = None

\* Every sequence over S of at most n elements.
SeqsUpTo(S, n) == UNION {SeqsOfLen(S, k) : k \in 0..n}

\* The values that are no arrays of elements.
Scalars ==
    {SimpleString(<<>>), SimpleString(<<"O", "K">>), ErrorValue(<<"E">>),
     Integer(0), Integer(12), Integer(0 - 1), Integer(I64_MIN),
     BulkString(<<>>), BulkString(<<"h", "i">>), BulkString(CRLF),
     NullBulkString, NullArray}

\* The arrays of scalars.
FlatArrays == {Array(q) : q \in SeqsUpTo(Scalars, MaxElts)}

\* The elements of the innermost arrays.
InnerScalars == {BulkString(<<"h", "i">>), NullBulkString}

\* The arrays of arrays: their elements are inner scalars and arrays of
\* inner scalars.
NestedArrays ==
    {Array(q) :
        q \in SeqsUpTo(InnerScalars
                       \cup {Array(r) : r \in SeqsUpTo(InnerScalars, MaxElts)},
                       MaxElts)}

\* The values that are encoded and decoded: scalars, arrays of scalars and
\* arrays of arrays.
Values == Scalars \cup FlatArrays \cup NestedArrays

\* Message::deserialize is called on the encoding of a value.
DecodeValue ==
    /\ RespFrame
    /\ sent = None
    /\ \E value \in Values, overflow_checks \in BOOLEAN :
         /\ sent' = Some(value)
         /\ input' = Encode(value)
         /\ decoded' = Some(deserialize(Encode(value), overflow_checks))

RECURSIVE Flatten(_)
\* The byte strings of a sequence, one after the other.
Flatten(q) == IF q = <<>> THEN <<>> ELSE q[1] \o Flatten(Tail(q))

\* The words of the requests that are sent as bytes.
RequestWords == {wPING, wEcho, wGET, wSET, wK}

\* The encoded elements of the arrays that are sent: bulk strings of
\* words, and values that are no bulk strings.
BulkElements == {Encode(BulkString(w)) : w \in RequestWords}
OtherElements ==
    {Encode(Integer(1)), Encode(SimpleString(<<"O", "K">>)),
     Encode(ErrorValue(<<"E">>)), Encode(NullBulkString), Encode(Array(<<>>)),
     Encode(NullArray)}
Elements == BulkElements \cup OtherElements

\* The bytes after an array header: no element, one element, two elements
\* of which one is a bulk string, or SET, a key and one more.
Bodies ==
    {Flatten(q) : q \in SeqsUpTo(Elements, 1)}
    \cup {e \o f : e \in BulkElements, f \in Elements}
    \cup {e \o Encode(BulkString(wPING)) : e \in OtherElements}
    \cup {Encode(BulkString(wSET)) \o Encode(BulkString(wK)) \o e : e \in Elements}

\* The array headers: the null array and up to three elements.
Headers == {Encode(NullArray)} \cup {<<"*">> \o ToDecimal(n) \o CRLF : n \in 0..3}

\* Two complete request arrays, one after the other, as one read delivers
\* them when the client sends the second before the first is read.
OneRequests ==
    {Encode(Array(<<BulkString(wPING)>>)),
     Encode(Array(<<BulkString(wEcho), BulkString(wK)>>))}
TwoRequests == {a \o b : a \in OneRequests, b \in OneRequests}

\* Bulk strings whose declared length is not the length of the payload:
\* one byte or nine bytes declared for PING.
BadBulks ==
    {<<"$", "1">> \o CRLF \o wPING \o CRLF,
     <<"$", "9">> \o CRLF \o wPING \o CRLF}

\* Length lines for parse_len: negative lengths, a non-digit and a byte
\* that is no UTF-8 before the CR, a CR without LF, no digit at all, and
\* lengths that do not fit the usize of the model.
LenLines ==
    {<<"$">> \o x \o CRLF :
        x \in {<<"-", "2">>, <<"-", "1", "x">>, <<"-", "1", CR, "x">>,
               <<"1", "x">>, <<BadByte>>, <<"1", CR, "x">>, <<>>,
               ToDecimal(2 ^ IntBits), ToDecimal(2 ^ IntBits + 44)}}

\* The inputs of handle_request: a header and a body; no header and at
\* most one element; the same with a stray byte at the end; inputs of
\* one byte; two requests in one read; bulk strings with a wrong length,
\* alone and as the one element of an array; and length lines.
Inputs ==
    {h \o body : h \in Headers, body \in Bodies}
    \cup (Elements \cup {<<>>})
    \cup {h \o body \o <<"x">> :
            h \in Headers \cup {<<>>}, body \in Elements \cup {<<>>}}
    \cup {<<BadByte>>, <<CR>>}
    \cup TwoRequests
    \cup BadBulks
    \cup LenLines
    \cup {<<"*", "1">> \o CRLF \o e : e \in BadBulks}

\* conn.rs hands the bytes it read to handle_request, which checks and
\* decodes them and hands the words to handle_words.
ReceiveBytes ==
    /\ RequestFrame
    /\ status # "run"
    /\ served < MaxRequests
    /\ \E b \in Inputs, overflow_checks \in BOOLEAN :
         LET r == request_words(b, overflow_checks)
         IN  /\ input' = b
             /\ decoded' = Some(deserialize(b, overflow_checks))
             /\ request_arr' = r.words
             /\ status' = IF r.err = "" THEN "run" ELSE r.err
    /\ i' = 0
    /\ result' = <<>>
    /\ served' = served + 1
    /\ executed' = <<>>
    /\ at_start' = storage
    /\ UNCHANGED <<storage, now, stored>>

RequestNext ==
    \/ ReceiveBytes
    \/ WordEcho
    \/ WordGet
    \/ WordPing
    \/ WordSet
    \/ WordOther
    \/ WordsDone

(***************************************************************************)
(* One connection: the loop of handle_connection on its TcpStream, and the *)
(* peer.  Requests are numbered in the order in which the peer sends them; *)
(* a piece of a reply is the pair of the number of its request and its    *)
(* place in the reply.                                                     *)
(***************************************************************************)
StreamInit ==
    /\ peer = [sent |-> 0, closed |-> FALSE]
    /\ stream = [rx |-> <<>>, tx |-> <<>>]
    /\ hconn = [pc |-> "read", bytes |-> <<>>, written |-> 0, reads |-> 0,
                flushed |-> 0]

\* The peer writes its next request to the socket.
peer_send ==
    /\ StreamFrame
    /\ ~peer.closed
    /\ peer.sent < MaxSends
    /\ peer' = [peer EXCEPT !.sent = @ + 1]
    /\ stream' = [stream EXCEPT !.rx = Append(@, peer.sent + 1)]
    /\ UNCHANGED hconn

\* The peer closes its end.
peer_close ==
    /\ StreamFrame
    /\ ~peer.closed
    /\ peer' = [peer EXCEPT !.closed = TRUE]
    /\ UNCHANGED <<stream, hconn>>

\* handle_connection, lines 35-40: stream.read returns n > 0 bytes, which
\* hold one or more of the requests that wait.
stream_read ==
    /\ StreamFrame
    /\ hconn.pc = "read"
    /\ \E n \in 1..Len(stream.rx) :
         /\ hconn' = [hconn EXCEPT !.pc = "handle",
                                   !.bytes = SubSeq(stream.rx, 1, n),
                                   !.written = 0,
                                   !.reads = @ + 1]
         /\ stream' = [stream EXCEPT !.rx = SubSeq(@, n + 1, Len(@))]
    /\ UNCHANGED peer

\* handle_connection, line 36: the read returns 0 bytes; the loop ends.
stream_read_eof ==
    /\ StreamFrame
    /\ hconn.pc = "read"
    /\ stream.rx = <<>>
    /\ peer.closed
    /\ hconn' = [hconn EXCEPT !.pc = "stopped"]
    /\ UNCHANGED <<peer, stream>>

\* handle_connection, lines 41-44, 49, 50 and 51: the read, handle_request,
\* the write or the flush returns an error, which ends the function.
stream_fails ==
    /\ StreamFrame
    /\ hconn.pc \in {"read", "handle", "write", "flush"}
    /\ hconn' = [hconn EXCEPT !.pc = "failed"]
    /\ UNCHANGED <<peer, stream>>

\* handle_connection, line 49: handle_request returns the reply to the
\* first request of the bytes.
request_handled ==
    /\ StreamFrame
    /\ hconn.pc = "handle"
    /\ hconn' = [hconn EXCEPT !.pc = "write"]
    /\ UNCHANGED <<peer, stream>>

\* A write that hands one piece of the reply to the socket and goes on to
\* the flush.
stream_write_once ==
    /\ StreamFrame
    /\ hconn.pc = "write"
    /\ stream' = [stream EXCEPT !.tx = Append(@, <<hconn.bytes[1], 1>>)]
    /\ hconn' = [hconn EXCEPT !.written = 1, !.pc = "flush"]
    /\ UNCHANGED peer

\* handle_connection, line 50: write_all hands the reply to the socket
\* piece by piece and returns when all of it is written.
stream_write ==
    /\ StreamFrame
    /\ hconn.pc = "write"
    /\ stream' = [stream EXCEPT
                    !.tx = Append(@, <<hconn.bytes[1], hconn.written + 1>>)]
    /\ hconn' = [hconn EXCEPT
                    !.written = @ + 1,
                    !.pc = IF hconn.written + 1 = ReplyChunks
                           THEN "flush" ELSE "write"]
    /\ UNCHANGED peer

\* handle_connection, line 51: flush returns; the loop starts over.
stream_flush ==
    /\ StreamFrame
    /\ hconn.pc = "flush"
    /\ hconn' = [hconn EXCEPT !.pc = "read", !.flushed = @ + 1]
    /\ UNCHANGED <<peer, stream>>

StreamNext ==
    \/ peer_send
    \/ peer_close
    \/ stream_read
    \/ stream_read_eof
    \/ stream_fails
    \/ request_handled
    \/ stream_write
    \/ stream_flush

Init == StoreInit /\ WordsIdle /\ ServerInit /\ RespInit /\ StreamInit

Next == StoreNext

Spec == Init /\ [][Next]_vars

\* The guards of the handlers do not overlap for ever: while the eviction
\* thread waits in storage.write(), the lock is free again and again.
WriterIsServed == []<>(evict.pc = "wait_write" => CanWrite)

\* The eviction thread is scheduled and its sleep ends; its call of
\* storage.write() returns if the lock is free again and again; a handler
\* that holds a guard runs on to the point where it drops it.
FairSweeper ==
    /\ WF_vars(evict_time)
    /\ SF_vars(evict_lock)
    /\ WF_vars(evict_sweep)
    /\ WF_vars(evict_wake)
    /\ \A c \in Conns :
          /\ WF_vars(handle_set_create(c))
          /\ WF_vars(handle_get_read(c))
          /\ WF_vars(handle_get_delete(c))
    /\ WriterIsServed

\* The steps of the storage model in which connection 1 alone sends SET.
NextSweeper ==
    \/ Tick
    \/ \E c \in {1} : handle_set_begin(c)
    \/ \E c \in Conns : handle_set_lock(c)
    \/ \E c \in Conns : handle_set_create(c)
    \/ \E c \in Conns : handle_get_begin(c)
    \/ \E c \in Conns : handle_get_lock_read(c)
    \/ \E c \in Conns : handle_get_read(c)
    \/ \E c \in Conns : handle_get_lock_write(c)
    \/ \E c \in Conns : handle_get_delete(c)
    \/ \E c \in Conns : handle_get_return(c)
    \/ evict_time
    \/ evict_lock
    \/ evict_sweep
    \/ evict_wake

SpecSweeper == Init /\ [][NextSweeper]_vars /\ FairSweeper

\* Weak fairness of every step of the eviction thread and of every step of
\* a handler that a connection task has begun.
WeakFairness ==
    /\ WF_vars(evict_time)
    /\ WF_vars(evict_lock)
    /\ WF_vars(evict_sweep)
    /\ WF_vars(evict_wake)
    /\ \A c \in Conns :
          /\ WF_vars(handle_set_lock(c))
          /\ WF_vars(handle_set_create(c))
          /\ WF_vars(handle_get_lock_read(c))
          /\ WF_vars(handle_get_read(c))
          /\ WF_vars(handle_get_lock_write(c))
          /\ WF_vars(handle_get_delete(c))
          /\ WF_vars(handle_get_return(c))

SpecWeaklyFair == Init /\ [][NextSweeper]_vars /\ WeakFairness

NextWords == WordsNext

SpecWords == Init /\ [][NextWords]_vars

NextServer == ServerNext

SpecServer == Init /\ [][NextServer]_vars

\* The runtime polls the listener, so an acquire that can return a permit
\* does; accept does not fail for ever while a connection waits for it.
FairListener ==
    /\ WF_vars(acquire_permit)
    /\ SF_vars(\E cl \in Clients : accept_and_spawn(cl))

SpecServerFair == Init /\ [][NextServer]_vars /\ FairListener

NextResp == DecodeValue

SpecResp == Init /\ [][NextResp]_vars

NextRequest == RequestNext

SpecRequest == Init /\ [][NextRequest]_vars

NextStream == StreamNext

SpecStream == Init /\ [][NextStream]_vars

(***************************************************************************)
(* Properties of the storage under concurrent connections and sweeps.      *)
(***************************************************************************)
\* Connection c does the step of handle_get that reads the storage.
GetReads(c) == conn[c].pc = "get_read" /\ conn'[c].pc # "get_read"

\* C1: a GET of a key whose latest SET had no TTL clause replies with the
\* bulk string of the value of that SET, and a GET of a key that was never
\* set replies with the null bulk string.
C1_GetAfterPlainSet ==
    [][\A c \in Conns :
          GetReads(c) =>
            LET key == conn[c].words[2]
            IN  IF key \in DOMAIN last_set
                THEN ~last_set[key].ttl =>
                        conn'[c].response = Bulk(last_set[key].value)
                ELSE conn'[c].response = NullBulk]_vars

\* C3: a key whose latest SET had no TTL clause has no entry in the expiry
\* map, even if an earlier SET gave it one.
C3_PlainSetClearsExpiry ==
    \A key \in DOMAIN last_set :
        ~last_set[key].ttl => key \notin DOMAIN storage.ke

\* C4: every key of the expiry map is a key of the primary map.
C4_ExpiryKeysArePrimaryKeys == DOMAIN storage.ke \subseteq DOMAIN storage.kv

\* A key left both maps by a deletion while another key has an expiry.
C4_Witness ==
    /\ \E key \in DOMAIN last_set : key \notin DOMAIN storage.kv
    /\ DOMAIN storage.ke # {}

\* C5: a GET of a key whose latest SET is the connection's own and which no
\* SET ever gave a TTL replies with the connection's own value, whatever
\* the other connections and the sweeps do in between.
C5_OwnWriteIsRead ==
    [][\A c \in Conns :
          GetReads(c) =>
            LET key == conn[c].words[2]
            IN  (/\ key \in DOMAIN last_set
                 /\ last_set[key].value = ValOf(c)
                 /\ ~last_set[key].ever_ttl)
                => conn'[c].response = Bulk(ValOf(c))]_vars

\* Two connections hold the replies to the GETs of their own, distinct keys.
C5_Witness ==
    \E c, d \in Conns :
        /\ c # d
        /\ conn[c].pc = "get_return" /\ conn[d].pc = "get_return"
        /\ conn[c].words[2] # conn[d].words[2]
        /\ conn[c].response = Bulk(ValOf(c))
        /\ conn[d].response = Bulk(ValOf(d))
        /\ \A key \in {conn[c].words[2], conn[d].words[2]} :
               key \in DOMAIN last_set /\ ~last_set[key].ever_ttl

\* Connection c reads the clock for a SET with a TTL clause.
SetTtlBegins(c) ==
    /\ conn[c].pc = "idle"
    /\ conn'[c].pc = "set_wait_write"
    /\ Len(conn'[c].words) = 5

\* Connection c stores a SET with a TTL clause on a key that exists.
SetTtlReplaces(c) ==
    /\ conn[c].pc = "set_write"
    /\ conn'[c].pc = "idle"
    /\ Len(conn[c].words) = 5
    /\ conn[c].words[2] \in DOMAIN storage.kv

\* C16: a SET with a TTL clause on a key that exists, with an expiry or
\* without one, replaces the value and the expiry: the expiry is the time
\* this SET read plus its TTL, and at every time a GET of the key finds the
\* new value up to that expiry and finds the key expired after it.
C16_SetTtlReplacesValueAndExpiry ==
    [][\A c \in Conns :
        /\ SetTtlBegins(c) =>
              LET n == parse_u128(conn'[c].words[5])[1]
                  ttl_ms == IF to_ascii_uppercase(conn'[c].words[4]) = wPX
                            THEN n ELSE 1000 * n
              IN  conn'[c].expiry = Some(now + ttl_ms)
        /\ SetTtlReplaces(c) =>
              LET key == conn[c].words[2]
                  value == conn[c].words[3]
              IN  /\ read(storage', key) = <<value, conn[c].expiry>>
                  /\ \A t \in 0..(MaxTime + 2) :
                        get_response(storage', key, t).response =
                            IF t <= conn[c].expiry[1]
                            THEN <<"$">> \o ToDecimal(Len(value)) \o CRLF
                                 \o value \o CRLF
                            ELSE <<"$", "-", "1", "\r", "\n">>]_vars

\* Connection 1 has read the value it had stored under k, and the latest
\* SET of k, of connection 2 with a TTL clause at a later time, has replaced
\* the value and set the expiry to its own time plus one millisecond.
C16_Witness ==
    /\ now > 0
    /\ conn[1].pc = "get_return"
    /\ conn[1].words = <<wGET, wK>>
    /\ conn[1].response = Bulk(ValOf(1))
    /\ wK \in DOMAIN last_set
    /\ last_set[wK].ttl
    /\ last_set[wK].value = ValOf(2)
    /\ read(storage, wK) = <<ValOf(2), Some(now + 1)>>

\* The expiry of key k is in the past.
Expired(k) == k \in DOMAIN storage.ke /\ now > storage.ke[k][1]

\* Key k is in neither map.
Removed(k) == k \notin DOMAIN storage.kv /\ k \notin DOMAIN storage.ke

C20_SleepsWithoutWriteLock ==
    evict.pc = "sleep" => rwlock.writer # Some(EVICT)

\* Connection c does the step of handle_get that deletes its key.
GetDeletes(c) == conn[c].pc = "get_write" /\ conn'[c].pc = "get_return"

\* C21: the delete of a GET removes its key only if the key is still
\* expired at the moment of the delete: a key that a SET stored after the
\* GET read it, with an expiry that is not in the past, stays with its
\* value and its expiry.
C21_GetDeletesOnlyExpiredKey ==
    [][\A c \in Conns :
        (GetDeletes(c) /\ conn[c].words[2] \in DOMAIN storage.kv
                       /\ ~Expired(conn[c].words[2])) =>
            read(storage', conn[c].words[2]) = read(storage, conn[c].words[2])]_vars

\* Connection c has asked for the storage lock and does not hold it yet.
WaitsForLock(c) ==
    conn[c].pc \in {"set_wait_write", "get_wait_read", "get_wait_write"}

\* C22: under weak fairness of the connection tasks and of the eviction
\* thread, every GET and every SET that asks for the storage lock
\* eventually gets it.
C22_RequestsGetTheLock ==
    \A c \in Conns : WaitsForLock(c) ~> ~WaitsForLock(c)

\* The task that holds the write guard is at a point of its code between
\* storage.write() and the drop of the guard.
WriterAtWork(holder) ==
    IF holder = EVICT THEN evict.pc \in {"sweep", "sleep"}
    ELSE conn[holder].pc \in {"set_write", "get_write"}

\* C23: a step that changes a map (a create of SET, a delete of GET, the
\* deletes of a sweep) is a step of the task that holds the write lock;
\* while a task holds the write lock no task holds a read lock and the
\* holder is the only writer; the read locks are held by the GETs that are
\* reading, which may be several.
C23_MapsChangeUnderWriteLock ==
    [][/\ storage' # storage =>
            /\ rwlock.writer # None
            /\ WriterAtWork(rwlock.writer[1])
            /\ IF rwlock.writer[1] = EVICT THEN evict' # evict /\ conn' = conn
               ELSE /\ conn'[rwlock.writer[1]] # conn[rwlock.writer[1]]
                    /\ evict' = evict
                    /\ \A d \in Conns \ {rwlock.writer[1]} : conn'[d] = conn[d]
       /\ rwlock'.writer # None =>
            /\ rwlock'.readers = {}
            /\ \A t \in Conns \cup {EVICT} :
                  (t = rwlock'.writer[1]) <=>
                     IF t = EVICT THEN evict'.pc \in {"sweep", "sleep"}
                     ELSE conn'[t].pc \in {"set_write", "get_write"}
       /\ rwlock'.readers = {c \in Conns : conn'[c].pc = "get_read"}]_vars

\* Both connections hold the read lock at the same time, on a storage that
\* holds a key.
C23_Witness ==
    /\ rwlock.readers = Conns
    /\ Cardinality(Conns) > 1
    /\ rwlock.writer = None
    /\ DOMAIN storage.kv # {}

\* Connection c does the step of handle_get that reads its key, and the
\* key has an expiry in the past.
GetReadsExpired(c) ==
    /\ conn[c].pc = "get_read"
    /\ conn'[c].pc # "get_read"
    /\ conn[c].words[2] \in DOMAIN storage.kv
    /\ Expired(conn[c].words[2])

\* C24: a GET that finds its key expired takes the null bulk string as its
\* reply and goes on to delete the key; it deletes under the write lock,
\* and after the delete the key is in neither map; the rest of the GET,
\* the return of the reply, leaves the maps as they are.
C24_ExpiredGetRepliesNullAndDeletes ==
    [][\A c \in Conns :
        /\ GetReadsExpired(c) =>
              /\ conn'[c].response = <<"$", "-", "1", "\r", "\n">>
              /\ conn'[c].pc = "get_wait_write"
              /\ storage' = storage
        /\ (conn[c].pc = "get_wait_write" /\ conn'[c] # conn[c]) =>
              /\ conn'[c].pc = "get_write"
              /\ rwlock'.writer = Some(c)
              /\ storage' = storage
        /\ GetDeletes(c) =>
              /\ rwlock.writer = Some(c)
              /\ conn[c].words[2] \notin DOMAIN storage'.kv
              /\ conn[c].words[2] \notin DOMAIN storage'.ke
              /\ conn'[c].response = conn[c].response
        /\ (conn[c].pc = "get_return" /\ conn'[c] # conn[c]) =>
              storage' = storage]_vars

\* A GET of k, a key that was stored with a TTL, has deleted it and is about
\* to return the null bulk string: k is in neither map.
C24_Witness ==
    /\ conn[1].pc = "get_return"
    /\ conn[1].words = <<wGET, wK>>
    /\ conn[1].response = NullBulk
    /\ conn[2].pc = "idle"
    /\ wK \in DOMAIN last_set /\ last_set[wK].ttl
    /\ Removed(wK)
    /\ rwlock.writer = None

\* Connection c does the step of handle_get that reads its key.
GetReadsKey(c) == conn[c].pc = "get_read" /\ conn'[c].pc # "get_read"

\* C25: a GET replies with the null bulk string when it reads a key whose
\* expiry is in the past, and also when a sweep has deleted the key before
\* the GET reads it; when a sweep deletes the key between the read and the
\* delete of the GET, the delete of the GET changes nothing and the reply
\* stays the null bulk string.
C25_GetOfExpiredKeyRacesSweep ==
    [][\A c \in Conns :
        /\ (GetReadsKey(c) /\ (\/ conn[c].words[2] \notin DOMAIN storage.kv
                               \/ Expired(conn[c].words[2]))) =>
              conn'[c].response = <<"$", "-", "1", "\r", "\n">>
        /\ (GetDeletes(c) /\ Removed(conn[c].words[2])) =>
              /\ storage' = storage
              /\ conn'[c].response = <<"$", "-", "1", "\r", "\n">>
        /\ (evict.pc = "sweep" /\ evict' # evict
              /\ conn[c].pc \in {"get_wait_write", "get_return"}) =>
              conn'[c] = conn[c]]_vars

\* A GET of k has found k expired and waits for the write lock, while the
\* eviction thread has swept k away and sleeps.
C25_Witness ==
    /\ conn[1].pc = "get_wait_write"
    /\ conn[1].words = <<wGET, wK>>
    /\ conn[1].response = NullBulk
    /\ conn[2].pc = "idle"
    /\ evict.pc = "sleep"
    /\ evict.time_now_ms > 1
    /\ wK \in DOMAIN last_set /\ last_set[wK].ttl
    /\ Removed(wK)

\* The step of the eviction thread that runs the for loop of one sweep.
SweepStep == evict.pc = "sweep" /\ evict'.pc = "sleep"

\* Key k keeps what the two maps hold for it through the step.
KeyKept(k) ==
    /\ (k \in DOMAIN storage'.kv) = (k \in DOMAIN storage.kv)
    /\ k \in DOMAIN storage.kv => storage'.kv[k] = storage.kv[k]
    /\ (k \in DOMAIN storage'.ke) = (k \in DOMAIN storage.ke)
    /\ k \in DOMAIN storage.ke => storage'.ke[k] = storage.ke[k]

\* C26: a sweep deletes only keys whose recorded expiry is strictly less than
\* the time the eviction thread read at the start of that sweep: every key
\* that has no expiry entry, or whose expiry is not less than that time,
\* keeps its value and its expiry through the sweep; a deleted key leaves
\* both maps.
C26_SweepDeletesOnlyExpired ==
    [][SweepStep =>
         \A k \in StoreKeys :
            IF k \in DOMAIN storage.ke /\ storage.ke[k][1] < evict.time_now_ms
            THEN KeyKept(k) \/ (k \notin DOMAIN storage'.kv /\ k \notin DOMAIN storage'.ke)
            ELSE KeyKept(k)]_vars

\* A sweep is over that read the time 2: k, stored with a TTL, is gone, and
\* j, whose expiry is the very time the sweep read, has its value and expiry.
C26_Witness ==
    /\ evict.pc = "sleep"
    /\ evict.time_now_ms = 2
    /\ \A c \in Conns : conn[c].pc \in {"idle", "set_wait_write"}
    /\ wK \in DOMAIN last_set /\ last_set[wK].ttl
    /\ Removed(wK)
    /\ wJ \in DOMAIN storage.kv
    /\ wJ \in DOMAIN storage.ke /\ storage.ke[wJ] = Some(2)

\* A task waits for the storage lock.
SomeTaskWaits ==
    \/ \E c \in Conns : WaitsForLock(c)
    \/ evict.pc = "wait_write"

\* A step of a task that waits for the lock or holds it: the lock is
\* granted, or its holder goes on to the point where it drops the guard.
LockStep ==
    \/ \E c \in Conns :
          \/ handle_set_lock(c)
          \/ handle_set_create(c)
          \/ handle_get_lock_read(c)
          \/ handle_get_read(c)
          \/ handle_get_lock_write(c)
          \/ handle_get_delete(c)
    \/ evict_lock
    \/ evict_sweep
    \/ evict_wake

\* C39: the connection tasks and the eviction thread never deadlock on the
\* storage lock: a GET that asks for the write lock holds no read lock, a
\* task that waits for the lock holds none, and in every state in which a
\* task waits for the lock, a waiting task can get it or a holder can go on
\* and drop it.
C39_NoDeadlockOnStorageLock ==
    /\ \A c \in Conns :
          WaitsForLock(c) => c \notin rwlock.readers /\ rwlock.writer # Some(c)
    /\ evict.pc = "wait_write" => rwlock.writer # Some(EVICT)
    /\ SomeTaskWaits => ENABLED LockStep

\* Every task waits for the write lock: both connections after a GET that
\* found its key expired, and the eviction thread.
C39_Witness ==
    /\ \A c \in Conns : conn[c].pc = "get_wait_write"
    /\ evict.pc = "wait_write"
    /\ rwlock = [writer |-> None, readers |-> {}]

(***************************************************************************)
(* Properties of the router.                                               *)
(***************************************************************************)
\* This step is a handler call that returned a reply.
Executes == Running /\ Len(executed') = Len(executed) + 1

LastExecuted == executed[Len(executed)]

CommandOf(e) == to_ascii_uppercase(e.words[1])

RECURSIVE Replies(_)
\* The replies of the handler calls, one after the other.
Replies(es) == IF es = <<>> THEN <<>> ELSE es[1].reply \o Replies(Tail(es))

\* The reply e.reply is the reply of the command at e.at.
ReplyFits(e) ==
    /\ e.words = SubSeq(request_arr, e.at + 1, e.at + Len(e.words))
    /\ CommandOf(e) \in {wPING, wECHO, wGET, wSET}
    /\ CommandOf(e) = wPING =>
          e.reply = IF Len(e.words) = 1 THEN Pong ELSE Bulk(e.words[2])
    /\ CommandOf(e) = wECHO => e.reply = Bulk(e.words[2])
    /\ CommandOf(e) = wSET => e.reply = Ok
    /\ CommandOf(e) = wGET => e.reply[1] = "$"

\* C6: the commands of a request run from left to right, and the reply
\* buffer holds their replies in that order: its j-th reply is the reply of
\* the j-th command of the request, which begins after the words of the
\* command before it.
C6_RepliesInCommandOrder ==
    status \in {"run", "ok"} =>
        /\ result = Replies(executed)
        /\ \A j \in 1..Len(executed) : ReplyFits(executed[j])
        /\ \A j \in 2..Len(executed) :
              executed[j].at >= executed[j - 1].at + Len(executed[j - 1].words)

\* C7: a word that a command consumed as its argument is not dispatched as
\* a command: no handler call starts inside the words of another.
C7_ArgumentsAreNotDispatched ==
    \A a, b \in 1..Len(executed) :
        ~(/\ executed[a].at < executed[b].at
          /\ executed[b].at < executed[a].at + Len(executed[a].words))

\* The reply is the bulk string of arg: "$", the byte length of arg in
\* decimal, CR LF, the bytes of arg, CR LF.
IsBulkOf(reply, arg) ==
    /\ Len(reply) = Len(arg) + 5 + Len(ToDecimal(Len(arg)))
    /\ reply[1] = "$"
    /\ LET r == parse_len(reply, TRUE)
       IN  /\ r.err = ""
           /\ r.len = Some(Len(arg))
           /\ SubSeq(reply, r.bytes_read + 1, r.bytes_read + Len(arg)) = arg
    /\ SubSeq(reply, Len(reply) - 1, Len(reply)) = CRLF

\* C15: PING with no argument (the last word of the request, or followed by
\* a command name) replies +PONG CR LF; PING with an argument and ECHO with
\* its argument reply the bulk string of the argument: the length prefix is
\* the byte length of the argument and the payload is the argument.
C15_PingEchoReplies ==
    [][(Executes /\ first \in {wPING, wECHO}) =>
        LET e == executed'[Len(executed')]
            has_arg == i < num_flattened - 1
            arg == request_arr[i + 2]
        IN  /\ result' = result \o e.reply
            /\ IF first = wPING /\ (~has_arg \/ is_cmd(arg))
               THEN e.reply = <<"+", "P", "O", "N", "G", "\r", "\n">>
               ELSE has_arg /\ IsBulkOf(e.reply, arg)]_vars

\* The request ECHO "Hello, world!" is answered: the reply buffer holds $13,
\* CR LF, the 13 bytes and CR LF.
C15_Witness ==
    /\ status = "ok"
    /\ Len(executed) = 1
    /\ CommandOf(executed[1]) = wECHO
    /\ executed[1].words[2] = wHello
    /\ result = <<"$", "1", "3", "\r", "\n">> \o wHello \o <<"\r", "\n">>

RECURSIVE ElementCounts(_, _)
\* The sum of the byte counts deserialize returns for the encodings of the
\* values of a sequence.
ElementCounts(elts, overflow_checks) ==
    IF elts = <<>> THEN 0
    ELSE deserialize(Encode(elts[1]), overflow_checks).length
         + ElementCounts(Tail(elts), overflow_checks)

\* C18: deserialize of the canonical encoding of a value (simple string,
\* error, integer, bulk string, null bulk string, array, nested array, null
\* array) returns that value and the length of the encoding as the count
\* of bytes; for an array the count is the length of its header plus the
\* sum of the counts of its elements.
C18_DecodeOfEncodingIsValue ==
    sent # None =>
        /\ decoded[1] = Decoded(sent[1], Len(input))
        /\ sent[1].t = "Array" =>
              \E overflow_checks \in BOOLEAN :
                  decoded[1].length =
                      Len(<<"*">> \o ToDecimal(Len(sent[1].v)) \o CRLF)
                      + ElementCounts(sent[1].v, overflow_checks)

\* The word with its letters a..z in upper case.
Fold(w) ==
    [n \in 1..Len(w) |->
        IF \E m \in 1..26 : LowerCase[m] = w[n]
        THEN UpperCase[CHOOSE m \in 1..26 : LowerCase[m] = w[n]]
        ELSE w[n]]

Names == {wPING, wECHO, wGET, wSET}

\* The words of a command with its name, and the TTL unit of a SET, in
\* upper case.
Canon(ws) ==
    [n \in 1..Len(ws) |->
        IF n = 1 \/ (n = 4 /\ Len(ws) = 5 /\ Fold(ws[1]) = wSET)
        THEN Fold(ws[n]) ELSE ws[n]]

\* What the handler of the command ws, spelled in upper case, returns.
CanonResult(ws) ==
    CASE Fold(ws[1]) = wPING -> handle_ping(Canon(ws)) @@ [storage |-> storage]
      [] Fold(ws[1]) = wECHO -> handle_echo(Canon(ws)) @@ [storage |-> storage]
      [] Fold(ws[1]) = wGET -> handle_get(Canon(ws), storage, now)
      [] Fold(ws[1]) = wSET -> handle_set(Canon(ws), storage, now)

\* The number of words handle_words hands to the handler of the command
\* at i.
CommandLen ==
    CASE Fold(request_arr[i + 1]) = wPING ->
            IF i < num_flattened - 1 /\ Fold(request_arr[i + 2]) \notin Names
            THEN 2 ELSE 1
      [] Fold(request_arr[i + 1]) = wSET ->
            IF num_flattened >= 4 /\ i < num_flattened - 4 THEN 5 ELSE 3
      [] OTHER -> 2

CommandWords == Slice(CommandLen)

\* C19: a word that spells PING, ECHO, GET or SET in any mix of upper and
\* lower case is dispatched as that command, a word after PING that spells
\* a command name in any case is no argument of PING, and the command
\* replies, fails and changes the storage as the same command with its name
\* and its TTL unit EX or PX in upper case.
C19_NamesMatchInAnyCase ==
    [][(Running /\ (i' # i \/ status' # status)
                /\ Fold(request_arr[i + 1]) \in Names
                /\ i + CommandLen <= num_flattened) =>
        LET r == CanonResult(CommandWords)
        IN  IF r.err = ""
            THEN /\ Executes
                 /\ executed'[Len(executed')].words = CommandWords
                 /\ executed'[Len(executed')].reply = r.reply
                 /\ storage' = r.storage
            ELSE status' = r.err /\ storage' = storage]_vars

\* The request SeT k 1 ex 1 has stored k with the expiry of one second.
C19_Witness ==
    /\ status = "ok"
    /\ executed # <<>>
    /\ executed[1].words = <<wSet, wK, wOne, wEx, wOne>>
    /\ executed[1].reply = Ok
    /\ read(storage, wK) = <<wOne, Some(now + 1000)>>

\* The word at the cursor is a command that lacks a mandatory argument:
\* ECHO or GET as the last word, SET with fewer than two words after it.
LacksArgument ==
    /\ Running
    /\ \/ first \in {wECHO, wGET} /\ num_flattened - (i + 1) < 1
       \/ first = wSET /\ num_flattened - (i + 1) < 2

\* C27: a command that lacks a mandatory argument fails with the
\* missing-argument request error, at every cursor position and for every
\* array length, the request that is the single word SET included.
C27_MissingArgumentFails ==
    [][LacksArgument /\ status' # status => status' = "MissingArg"]_vars

\* The fewest words a command of the given name takes.
MinWords(name) ==
    CASE name = wPING -> 1
      [] name = wSET -> 3
      [] OTHER -> 2

\* The word at the cursor is SET, and its key and value are followed by a
\* recognized command that has its arguments.
SetThenCommand ==
    /\ Running
    /\ first = wSET
    /\ i + 3 < num_flattened
    /\ Fold(request_arr[i + 4]) \in Names
    /\ i + 3 + MinWords(Fold(request_arr[i + 4])) <= num_flattened

\* C28: when SET key value is followed in the same request by another
\* recognized command with its arguments, the SET is executed without a
\* TTL: it replies +OK, stores the value with no expiry and leaves the
\* request running for the command that follows.
C28_SetThenCommandRunsBoth ==
    [][SetThenCommand /\ (i' # i \/ status' # status) =>
         /\ Executes
         /\ status' = "run"
         /\ executed'[Len(executed')].words = Slice(3)
         /\ executed'[Len(executed')].reply = Ok
         /\ result' = result \o Ok
         /\ storage' = create(storage, request_arr[i + 2], request_arr[i + 3], None)]_vars

\* The word is a non-negative decimal integer: decimal digits, which a plus
\* sign may precede.
NonNegativeDecimal(w) ==
    LET ds == IF w # <<>> /\ w[1] = "+" THEN Tail(w) ELSE w
    IN  ds # <<>> /\ \A n \in 1..Len(ds) : IsDigit(ds[n])

\* The word at the cursor is a SET with a TTL clause whose unit is neither
\* EX nor PX or whose value is no non-negative decimal integer.
BadTtlClause ==
    /\ Running
    /\ first = wSET
    /\ i + 5 <= num_flattened
    /\ \/ Fold(request_arr[i + 4]) \notin {wEX, wPX}
       \/ ~NonNegativeDecimal(request_arr[i + 5])

\* C29: a SET with a TTL clause whose unit is neither EX nor PX, or whose
\* TTL value is not a non-negative decimal integer, fails with a request
\* error and stores nothing: no value and no expiry of the storage changes
\* and no reply is written.
C29_BadTtlClauseStoresNothing ==
    [][BadTtlClause /\ (i' # i \/ status' # status) =>
         /\ status' \in {"WrongArg", "ParseIntError"}
         /\ storage' = storage
         /\ stored' = stored
         /\ result' = <<>>
         /\ ~Executes]_vars

\* SET k k PX -1 failed on a key that holds the value 1 and an expiry.
C29_Witness ==
    /\ status = "ParseIntError"
    /\ request_arr = <<wSET, wK, wK, wPX, wMinusOne>>
    /\ i = 0
    /\ read(storage, wK) = <<wOne, Some(1)>>
    /\ now = 2

\* The step is one of handle_words at a cursor at which the word is PING.
PingStep ==
    /\ Running
    /\ i' # i \/ status' # status
    /\ Fold(request_arr[i + 1]) = wPING

\* The latest handler call was a PING at the word before the cursor, with
\* the given number of words.
AfterPing(n) ==
    /\ Running
    /\ i' # i \/ status' # status
    /\ executed # <<>>
    /\ LastExecuted.at = i - 1
    /\ Fold(LastExecuted.words[1]) = wPING
    /\ Len(LastExecuted.words) = n

\* C30: PING followed by a word that is a command name in any letter case
\* replies +PONG and that word starts the next command; PING followed by
\* any other word replies with that word as a bulk string, and the word is
\* passed over without a handler call; PING as the last word replies +PONG.
C30_PingAndTheWordAfterIt ==
    [][/\ PingStep =>
            LET e == executed'[Len(executed')]
                last == i = num_flattened - 1
            IN  /\ Executes
                /\ status' = "run"
                /\ i' = i + 1
                /\ e.at = i
                /\ result' = result \o e.reply
                /\ IF last \/ Fold(request_arr[i + 2]) \in Names
                   THEN e.words = <<request_arr[i + 1]>> /\ e.reply = Pong
                   ELSE /\ e.words = <<request_arr[i + 1], request_arr[i + 2]>>
                        /\ e.reply = <<"$">> \o ToDecimal(Len(request_arr[i + 2]))
                                       \o <<"\r", "\n">> \o request_arr[i + 2]
                                       \o <<"\r", "\n">>
       /\ AfterPing(1) =>
            /\ Fold(request_arr[i + 1]) \in Names
            /\ \/ status' # "run"
               \/ /\ Executes
                  /\ executed'[Len(executed')].at = i
                  /\ executed'[Len(executed')].words[1] = request_arr[i + 1]
       /\ AfterPing(2) =>
            /\ Fold(request_arr[i + 1]) \notin Names
            /\ ~Executes
            /\ i' = i + 1
            /\ UNCHANGED <<status, result, storage, stored>>]_vars

\* Ping geT k was served: +PONG for Ping, then the reply of geT k.
C30_Witness ==
    /\ status = "ok"
    /\ request_arr = <<wPing, wGet, wK>>
    /\ Len(executed) = 2
    /\ executed[1].words = <<wPing>>
    /\ executed[1].reply = Pong
    /\ executed[2].at = 1
    /\ executed[2].words = <<wGet, wK>>
    /\ result = Pong \o executed[2].reply

\* No word of the request from position n on spells a command name.
RECURSIVE NoNames(_, _)
NoNames(ws, n) ==
    IF n > Len(ws) THEN TRUE
    ELSE Fold(ws[n]) \notin Names /\ NoNames(ws, n + 1)

\* C31: a word at the cursor that is not a command name is skipped without
\* error and without reply: the cursor moves by one, no handler is called,
\* and the reply buffer, the status and the storage stay as they are; a
\* request made only of such words returns success with an empty reply.
C31_UnknownWordsAreSkipped ==
    [][/\ (Running /\ (i' # i \/ status' # status)
                   /\ Fold(request_arr[i + 1]) \notin Names) =>
            /\ i' = i + 1
            /\ ~Executes
            /\ UNCHANGED <<status, result, executed, storage, stored>>
       /\ (status = "run" /\ status' # "run" /\ NoNames(request_arr, 1)) =>
            /\ status' = "ok"
            /\ i = num_flattened
            /\ result' = <<>>
            /\ executed' = <<>>
            /\ UNCHANGED <<storage, stored>>]_vars

\* The second request, k 1 px, returned Ok with an empty reply; the key the
\* first request stored is still there.
C31_Witness ==
    /\ status = "ok"
    /\ served = 2
    /\ request_arr = <<wK, wOne, wpx>>
    /\ i = 3
    /\ result = <<>>
    /\ executed = <<>>
    /\ wK \in DOMAIN storage.kv

\* handle_words returned a request error for the request.
RequestError == status \notin {"idle", "run", "ok", "panic"}

\* C32: a request that ends in a request error leaves the storage exactly
\* as it was before the request: no command of a failing pipelined request
\* has a lasting effect.
C32_FailedRequestChangesNothing ==
    RequestError => storage = at_start

(***************************************************************************)
(* Properties of the listener and of the connection permits.               *)
(***************************************************************************)
\* The connection tasks that were spawned and have not ended.
RunningTasks == {cl \in Clients : task[cl].pc \in {"running", "returned"}}

\* The permits that are out of the semaphore: those of the tasks and the
\* one the listener holds while it waits in accept.
PermitsInUse ==
    Cardinality({cl \in Clients : task[cl].permit})
    + (IF listener.permit THEN 1 ELSE 0)

\* C8: the number of running connection tasks is at most the configured
\* maximum.
C8_RunningTasksAtMostMax == Cardinality(RunningTasks) <= MaxConn

\* As many tasks run as the maximum allows while a further client waits.
C8_Witness ==
    /\ Cardinality(RunningTasks) = MaxConn
    /\ \E cl \in Clients : client[cl].state = "pending"

\* C9: the permits in the semaphore and the permits in use are together the
\* configured maximum, every running task holds a permit and no task that
\* has ended holds one, however it ended.
C9_NoPermitLeaks ==
    /\ permits + PermitsInUse = MaxConn
    /\ \A cl \in Clients :
          /\ task[cl].pc \in {"running", "returned"} => task[cl].permit
          /\ task[cl].pc \in {"none", "ended"} => ~task[cl].permit

\* Tasks have ended by an error and by the close of the peer, and every
\* permit is back.
C9_Witness ==
    /\ \E cl \in Clients : task[cl].pc = "ended" /\ task[cl].end = "closed"
    /\ \E cl \in Clients : task[cl].pc = "ended" /\ task[cl].end = "CmdError"
    /\ \E cl \in Clients : task[cl].pc = "ended" /\ task[cl].end = "IoError"
    /\ permits = MaxConn

\* This step is the timeout of the wait for a permit.
TimesOut ==
    /\ listener.pc = "acquire"
    /\ permits = 0
    /\ \/ listener.last # "ElapsedError" /\ listener'.last = "ElapsedError"
       \/ \E cl \in Clients : ~client[cl].waited /\ client'[cl].waited

RequestFails(cl) ==
    task[cl].pc = "running" /\ task'[cl].end = "CmdError"

\* C11: when the handling of a request fails with a request error, the
\* task writes no reply for it and ends; a task that has ended reads and
\* writes no more; the listener and the other tasks are as they were.
C11_RequestErrorEndsOnlyItsTask ==
    [][\A cl \in Clients :
          /\ RequestFails(cl) =>
                /\ task'[cl].replies = task[cl].replies
                /\ task'[cl].pc = "ended"
                /\ listener' = listener
                /\ \A o \in Clients \ {cl} : task'[o] = task[o]
          /\ task[cl].pc = "ended" => task'[cl] = task[cl]]_vars

\* A task has ended on a request error after it answered a request, another
\* task has answered a request, and the listener waits for the next client.
C11_Witness ==
    \E cl, o \in Clients :
        /\ cl # o
        /\ task[cl].pc = "ended" /\ task[cl].end = "CmdError"
        /\ task[cl].replies = 1
        /\ task[o].pc = "running" /\ task[o].replies = 1
        /\ listener.pc = "accept"

\* The listener's wait for a permit times out in this step.
TimeoutStep ==
    /\ listener.pc = "acquire"
    /\ permits = 0
    /\ \/ listener.last # "ElapsedError" /\ listener'.last = "ElapsedError"
       \/ \E cl \in Clients : ~client[cl].waited /\ client'[cl].waited

\* The listener's accept fails in this step.
AcceptFailsStep == listener.pc = "accept" /\ listener'.pc = "acquire"
                   /\ listener'.last = "IoError"

\* The latest attempt of the listener failed, a permit is free and a
\* connection waits for accept.
FailedAndSlotFree ==
    /\ listener.last \in {"ElapsedError", "IoError"}
    /\ permits > 0 \/ listener.permit
    /\ \E cl \in Clients : client[cl].state = "pending"

\* C35: after a timeout of the wait for a permit or an accept failure the
\* listener loop continues: the listener is back at the acquire and holds
\* no permit, the permits in the semaphore and in use are the configured
\* maximum, no task and no waiting connection is touched; and once a permit
\* is free, a connection that waits is accepted and its task is spawned.
C35_ListenerGoesOnAfterFailure ==
    /\ [][(TimeoutStep \/ AcceptFailsStep) =>
            /\ listener'.pc = "acquire"
            /\ ~listener'.permit
            /\ permits' + PermitsInUse' = MaxConn
            /\ task' = task
            /\ \A cl \in Clients : /\ client'[cl].state = client[cl].state
                                   /\ client'[cl].closed = client[cl].closed]_vars
    /\ FailedAndSlotFree ~> (listener.last = "spawned")

\* An accept has failed while a task runs and a client waits: the listener
\* is back at the acquire and the permit of the attempt is in the semaphore.
C35_Witness ==
    /\ listener = [pc |-> "acquire", permit |-> FALSE, last |-> "IoError"]
    /\ Cardinality(RunningTasks) = 1
    /\ permits = MaxConn - 1
    /\ \E cl \in Clients : client[cl].state = "pending" /\ ~client[cl].closed

(***************************************************************************)
(* Properties of the codec and of the checks of handle_request.            *)
(***************************************************************************)
\* This step hands the bytes input' to handle_request.
Receives == served' = served + 1 /\ input' \in Inputs

\* The bytes b end with CR LF.
EndsWithCRLF(b) == Len(b) >= 2 /\ b[Len(b) - 1] = CR /\ b[Len(b)] = LF

\* handle_request returned the error e in this step: there is no reply, no
\* command has run and the storage is as it was.
RejectedWith(e) ==
    /\ status' = e
    /\ result' = <<>>
    /\ executed' = <<>>
    /\ storage' = storage

\* C12: a request of fewer than 2 bytes is rejected with the error
\* InputTooShort and one of 2 bytes or more whose last two bytes are not
\* CR LF with the error CRLFNotAtEnd; there is no reply and no command runs.
C12_ShortOrUnterminatedRejected ==
    [][Receives =>
         /\ Len(input') < 2 => RejectedWith("InputTooShort")
         /\ (Len(input') >= 2 /\ ~EndsWithCRLF(input'))
               => RejectedWith("CRLFNotAtEnd")]_vars

\* The value the bytes input' decode to.
Top == decoded'[1].value

\* C13: a request that ends with CR LF and whose value is a simple string,
\* an error, an integer, a bulk string or a null bulk string is rejected
\* with the error CmdNotArray.
C13_NotArrayRejected ==
    [][(/\ Receives
        /\ EndsWithCRLF(input')
        /\ decoded'[1].err = ""
        /\ Top.t \in {"SimpleString", "Error", "Integer", "BulkString",
                       "NullBulkString"})
       => RejectedWith("CmdNotArray")]_vars

\* C14: a request that decodes to a null array, to an empty array or to an
\* array with an element that is no bulk string is rejected with the error
\* for it before any command runs: the storage is as it was and there is no
\* reply.
C14_BadArrayRejected ==
    [][(Receives /\ EndsWithCRLF(input') /\ decoded'[1].err = "") =>
         /\ Top.t = "NullArray" => RejectedWith("NullArray")
         /\ (Top.t = "Array" /\ Top.v = <<>>) => RejectedWith("EmptyArray")
         /\ (/\ Top.t = "Array"
             /\ \E k \in 1..Len(Top.v) : Top.v[k].t # "BulkString")
               => RejectedWith("NotAllBulk")]_vars

\* A request that holds SET and then a nested array was rejected, after an
\* earlier request stored a key.
C14_Witness ==
    /\ status = "NotAllBulk"
    /\ DOMAIN storage.kv # {}
    /\ decoded # None /\ decoded[1].err = ""
    /\ decoded[1].value.t = "Array"
    /\ Len(decoded[1].value.v) = 2
    /\ decoded[1].value.v[1] = BulkString(wSET)
    /\ decoded[1].value.v[2] = Array(<<>>)

\* C33: when one read delivers two complete request arrays back to back,
\* both are processed: either the input is rejected with an error or the
\* words handed to handle_words are those of the whole input, so no byte
\* after the first top-level array is silently ignored.
C33_BytesAfterFirstArrayNotIgnored ==
    [][(Receives /\ input' \in TwoRequests) =>
         \/ status' # "run"
         \/ /\ decoded'[1].err = ""
            /\ decoded'[1].length = Len(input')]_vars

(***************************************************************************)
(* Properties of one connection.                                           *)
(***************************************************************************)
\* The pieces of the complete reply to request r.
WholeReply(r) == [k \in 1..ReplyChunks |-> <<r, k>>]

\* The first requests of the reads that were answered so far, in the order
\* of the reads: the requests of the pieces on the socket.
RECURSIVE Answered(_)
Answered(tx) ==
    IF tx = <<>> THEN <<>>
    ELSE LET rest == Answered(SubSeq(tx, 1, Len(tx) - 1))
             r == tx[Len(tx)][1]
         IN  IF rest # <<>> /\ rest[Len(rest)] = r THEN rest
             ELSE Append(rest, r)

\* The replies to the requests rs, one whole reply after the other.
RECURSIVE WholeReplies(_)
WholeReplies(rs) ==
    IF rs = <<>> THEN <<>> ELSE WholeReply(rs[1]) \o WholeReplies(Tail(rs))

\* C34: on one connection the reply to a request is completely written and
\* flushed before the next read is issued, so replies appear on the socket
\* in the order in which the requests were received: when the connection
\* is about to read, the socket holds whole replies only and as many as
\* there were reads and flushes, and the requests of the replies on the
\* socket are in the order in which the peer sent them.
C34_ReplyWrittenBeforeNextRead ==
    /\ hconn.pc = "read" =>
          /\ stream.tx = WholeReplies(Answered(stream.tx))
          /\ Len(Answered(stream.tx)) = hconn.reads
          /\ hconn.flushed = hconn.reads
    /\ \A p, q \in 1..Len(stream.tx) :
          p < q => \/ stream.tx[p][1] < stream.tx[q][1]
                   \/ /\ stream.tx[p][1] = stream.tx[q][1]
                      /\ stream.tx[p][2] < stream.tx[q][2]

\* Two requests were read one by one and answered; the connection is about
\* to read the third.
C34_Witness ==
    /\ hconn.pc = "read"
    /\ hconn.reads = 2
    /\ stream.tx = WholeReply(1) \o WholeReply(2)
    /\ stream.rx = <<3>>

\* C36: for every client byte sequence, request handling returns either
\* reply bytes or a typed error value: it never panics and never reads
\* outside the input.
C36_NoPanicNoReadOutside ==
    [][Receives => status' \notin {"panic", "OutOfBounds"}]_vars

\* The bytes b are a bulk string with a declared length n: the type byte,
\* decimal digits, CR LF.
DeclaresLength(b) ==
    /\ Len(b) >= 1
    /\ b[1] = "$"
    /\ parse_len(b, TRUE).err = ""
    /\ parse_len(b, TRUE).len # None

\* The declared number of payload bytes is present and CR LF follows it.
PayloadThenCRLF(b) ==
    LET start == parse_len(b, TRUE).bytes_read
        n == parse_len(b, TRUE).len[1]
    IN  /\ Len(b) >= start + n + 2
        /\ b[start + n + 1] = CR
        /\ b[start + n + 2] = LF

\* C37: decoding a bulk string of declared length n succeeds only when n
\* payload bytes are present and are immediately followed by CR LF; in
\* every other case it is a decode failure.
C37_BulkStringNeedsPayloadAndCRLF ==
    [][(Receives /\ DeclaresLength(input')) =>
         (decoded'[1].err = "" <=> PayloadThenCRLF(input'))]_vars

\* The bytes of b after the type byte and before the first CR.
LengthField(b) == SubSeq(b, 2, FindFirst(b, CR))

\* b has a CR after the type byte and a byte after that CR.
HasLengthLine(b) == Len(b) >= 1 /\ b[1] # CR /\ FindFirst(b, CR) + 1 < Len(b)

\* What the claim has parse_len return for the bytes b: the null length for
\* -1 CR LF, a failure for another length that begins with '-', the
\* integer-parse error for a non-digit before the CR, the LF-missing error
\* for a CR without LF, and else the decimal value with the count of the
\* bytes up to the LF.
LenAsClaimed(b, r) ==
    LET field == LengthField(b)
        cr == FindFirst(b, CR)
    IN  IF field # <<>> /\ field[1] = "-"
        THEN IF field = <<"-", "1">> /\ At(b, cr + 1) = LF
             THEN r.err = "" /\ r.len = None /\ r.bytes_read = 5
             ELSE r.err # ""
        ELSE IF \E n \in 1..Len(field) : ~IsDigit(field[n])
        THEN r.err = "IntegerParseError"
        ELSE IF At(b, cr + 1) # LF
        THEN r.err = "LFMissing"
        ELSE /\ r.err = ""
             /\ r.len = Some(DigitsValue(field))
             /\ r.bytes_read = Len(field) + 3

\* C38: length parsing after the type byte returns, for every input with a
\* length line and in every build, what the claim says: the null length
\* with 5 bytes for -1 CR LF, a failure for any other length that begins
\* with '-', the integer-parse error for a non-digit before the CR, the
\* LF-missing error for a CR not followed by LF, and otherwise the decimal
\* value with the number of bytes consumed.
C38_ParseLenAsClaimed ==
    [][(Receives /\ HasLengthLine(input')) =>
         \A overflow_checks \in BOOLEAN :
            LenAsClaimed(input', parse_len(input', overflow_checks))]_vars

====
